---------------------------- MODULE Spec2Model ----------------------------
(***************************************************************************)
(* Configuration export / import of conf/bin/x-ops.py: ConfigExporter      *)
(* writes the configuration graph of a store as a snapshot document,       *)
(* ConfigImporter replays a document into a store.                         *)
(*                                                                         *)
(* A store is a record of tables (one per Django model), a table a set of  *)
(* rows, a row a record with the store-assigned primary key `id`.  A       *)
(* document is a record of sections; a section is [st, recs] with st one   *)
(* of "list" (a JSON array), "null" (a value that cannot be iterated) or   *)
(* "absent" (the key is not in the document).  A key that a record lacks   *)
(* holds Absent; a foreign key serialised as a primary key holds a number, *)
(* 0 for None.                                                             *)
(***************************************************************************)
EXTENDS Integers, Sequences, FiniteSets, TLC

\* Number of disturbances of an import: hand edits made to the snapshot
\* between export and import, and store calls that fail while it is imported.
MaxEdits == 1
\* Number of import commands run against the target store.
MaxRuns == 2

Absent == "<absent>"

Lst(s) == [st |-> "list", recs |-> s]
AbsentSec == [st |-> "absent", recs |-> <<>>]
NullSec == [st |-> "null", recs |-> <<>>]

\* dict.get(key, default) / dict.pop(key, default) on a list-valued key
GetList(l) == IF l.st = "list" THEN l.recs ELSE <<>>

Range(s) == {s[i] : i \in DOMAIN s}

-----------------------------------------------------------------------------
(* The store (the Django ORM tables the script reads and writes)           *)

Tables == {"User", "Organization", "OrganizationUser", "Project", "ProjectKey",
           "ProjectCounter", "Team", "Environment", "EnvironmentProject",
           "ProjectAlert", "AlertRecipient", "APIToken", "UserProjectAlert"}

EmptyStore == [t \in Tables |-> {}]

Ids(T) == {e.id : e \in T}

\* primary key given to a new row: the table's sequence
NextId(T) == IF T = {} THEN 1 ELSE (CHOOSE m \in Ids(T) : \A k \in Ids(T) : k <= m) + 1

\* Model.objects.get(pk=id)
Row(T, id) == CHOOSE e \in T : e.id = id

\* QuerySet.first(): the row of least primary key
FirstRow(S) == CHOOSE e \in S : \A f \in S : e.id <= f.id

\* Model.objects.create(...)
Create(st, table, row) ==
    [st EXCEPT ![table] = @ \cup {[row EXCEPT !.id = NextId(st[table])]}]

\* Model.objects.all(), iterated in primary-key order
RECURSIVE ById(_)
ById(S) == IF S = {} THEN <<>>
           ELSE LET e == FirstRow(S) IN <<e>> \o ById(S \ {e})

RECURSIVE Concat(_)
Concat(ss) == IF ss = <<>> THEN <<>> ELSE Head(ss) \o Concat(Tail(ss))

\* [f(e) for e in seq]
Map(s, F(_)) == [i \in DOMAIN s |-> F(s[i])]

-----------------------------------------------------------------------------
(* Stores of the model                                                     *)

\* one user, one organization with that user as member, one project
SrcSmall ==
    [EmptyStore EXCEPT
       !["User"] = {[id |-> 5, email |-> "a@x.com", name |-> "A", password |-> "h1"]},
       !["Organization"] = {[id |-> 7, slug |-> "acme", name |-> "Acme"]},
       !["OrganizationUser"] =
           {[id |-> 3, user |-> 5, organization |-> 7, role |-> "member", email |-> ""]},
       !["Project"] = {[id |-> 9, slug |-> "web", name |-> "Web", organization |-> 7]}]

\* two organizations, each with a project of slug "web", and one row of every
\* dependent table
SrcFull ==
    [EmptyStore EXCEPT
       !["User"] = {[id |-> 5, email |-> "a@x.com", name |-> "A", password |-> "h1"],
                    [id |-> 6, email |-> "b@x.com", name |-> "B", password |-> "h2"]},
       !["Organization"] = {[id |-> 7, slug |-> "acme", name |-> "Acme"],
                            [id |-> 8, slug |-> "beta", name |-> "Beta"]},
       !["OrganizationUser"] =
           {[id |-> 3, user |-> 5, organization |-> 7, role |-> "member", email |-> ""],
            [id |-> 4, user |-> 6, organization |-> 8, role |-> "owner", email |-> ""]},
       !["Project"] = {[id |-> 9, slug |-> "web", name |-> "Web", organization |-> 7],
                       [id |-> 10, slug |-> "web", name |-> "Web2", organization |-> 8]},
       !["ProjectKey"] = {[id |-> 2, project |-> 9, public_key |-> "k1"]},
       !["ProjectCounter"] = {[id |-> 2, project |-> 9, value |-> 4]},
       !["Team"] = {[id |-> 2, slug |-> "t1", organization |-> 7,
                     members |-> {3}, projects |-> {9}]},
       !["Environment"] = {[id |-> 2, name |-> "prod", organization |-> 7]},
       !["EnvironmentProject"] =
           {[id |-> 2, project |-> 9, environment |-> 2, is_hidden |-> FALSE]},
       !["ProjectAlert"] = {[id |-> 2, project |-> 10, name |-> "al"]},
       !["AlertRecipient"] = {[id |-> 2, alert |-> 2]},
       !["APIToken"] = {[id |-> 2, token |-> "tok1", user |-> 5, scopes |-> {"org:read"}]},
       !["UserProjectAlert"] = {[id |-> 2, user |-> 5, project |-> 9]}]

SourceStores == {EmptyStore, SrcSmall, SrcFull}

\* a target that already holds part of the configuration
TgtPopulated ==
    [EmptyStore EXCEPT
       !["User"] = {[id |-> 1, email |-> "a@x.com", name |-> "Old", password |-> "h0"]},
       !["Organization"] = {[id |-> 1, slug |-> "acme", name |-> "Acme"]},
       !["OrganizationUser"] =
           {[id |-> 1, user |-> 1, organization |-> 1, role |-> "owner", email |-> ""]},
       !["Project"] = {[id |-> 1, slug |-> "web", name |-> "Web", organization |-> 1]},
       !["ProjectKey"] = {[id |-> 1, project |-> 1, public_key |-> "k1"]},
       !["Team"] = {[id |-> 1, slug |-> "t1", organization |-> 1,
                     members |-> {}, projects |-> {}]},
       !["Environment"] = {[id |-> 1, name |-> "prod", organization |-> 1]}]

TargetStores == {EmptyStore, TgtPopulated}

-----------------------------------------------------------------------------
(* Snapshot documents                                                      *)

Sections == {"users", "organizations", "organization_users", "organization_owners",
             "projects", "project_keys", "project_counters", "teams",
             "project_alerts", "alert_recipients", "environments",
             "environment_projects", "api_tokens", "user_project_alerts"}

\* ConfigExporter.__init__: metadata and an empty data mapping
NewExportData == [metadata |-> [version |-> "1.0"],
                  data |-> [s \in Sections |-> AbsentSec]]

NoFile == [nofile |-> TRUE]
\* a file that json.load cannot parse
Truncated == [truncated |-> TRUE]

\* dict.get(key): the value, or Absent (None / the default) for a missing key
Get(rec, key) == IF key \in DOMAIN rec THEN rec[key] ELSE Absent

\* dict.get(key, []) on a list-valued key of a record
GetSeq(rec, key) == IF key \in DOMAIN rec THEN rec[key] ELSE <<>>

\* dict.pop(key, default): the key is removed from the record
Pop(rec, key) == [k \in DOMAIN rec \ {key} |-> rec[k]]

-----------------------------------------------------------------------------
(* ConfigExporter                                                          *)

\* the concrete fields (_meta.fields) that are ForeignKeys
FKFields == {"user", "organization", "project", "environment", "alert"}
\* many-to-many relations are not in _meta.fields
M2MFields == {"members", "projects"}

\* the fields whose values are of none of the types serialize_model tests for
\* (the BitField of a token's scopes)
FallbackFields == {"scopes"}

\* one field of serialize_model.  The values of the modelled rows are None,
\* int, str and bool, which pass through; ForeignKeys, written as value.pk:
\* a row holds a ForeignKey as the primary key of the row it points to (0 for
\* None), so that number is what is written; and values of other types, which
\* take the last branch, str(value)
SerializeValue(f, v) == IF f \in FallbackFields THEN ToString(v) ELSE v

\* the lossy-conversion warnings a document records
Warnings(doc) ==
    IF "warnings" \in DOMAIN doc.metadata THEN doc.metadata.warnings ELSE {}

SerializeModel(row, exclude_fields) ==
    [f \in (DOMAIN row \ (M2MFields \cup exclude_fields)) |-> SerializeValue(f, row[f])]

\* org_user.user.email if org_user.user else org_user.email
MemberEmail(st, ou) == IF ou.user = 0 THEN ou.email ELSE Row(st["User"], ou.user).email

export_users(st) ==
    Map(ById(st["User"]),
        LAMBDA u : [password_hash |-> u.password] @@ SerializeModel(u, {"password"}))

export_org_users(st) ==
    Concat(Map(ById(st["Organization"]),
        LAMBDA org :
            Map(ById({ou \in st["OrganizationUser"] : ou.organization = org.id}),
                LAMBDA ou : [user_email |-> MemberEmail(st, ou)]
                            @@ SerializeModel(ou, {}))))

export_projects(st) ==
    Map(ById(st["Project"]),
        LAMBDA p : [organization_slug |-> Row(st["Organization"], p.organization).slug]
                   @@ SerializeModel(p, {}))

export_project_keys(st) ==
    Concat(Map(ById(st["Project"]),
        LAMBDA p : Map(ById({k \in st["ProjectKey"] : k.project = p.id}),
                       LAMBDA k : [current_dsn |-> k.public_key]
                                  @@ SerializeModel(k, {}))))

export_project_counters(st) ==
    Concat(Map(ById(st["Project"]),
        LAMBDA p : LET cs == {c \in st["ProjectCounter"] : c.project = p.id}
                   IN IF cs = {} THEN <<>>
                      ELSE <<SerializeModel(FirstRow(cs), {})>>))

export_teams(st) ==
    Map(ById(st["Team"]),
        LAMBDA t :
            [organization_slug |-> Row(st["Organization"], t.organization).slug,
             member_emails |->
                 Map(ById({ou \in st["OrganizationUser"] : ou.id \in t.members}),
                     LAMBDA ou : MemberEmail(st, ou)),
             project_slugs |->
                 Map(ById({p \in st["Project"] : p.id \in t.projects}),
                     LAMBDA p : p.slug)]
            @@ SerializeModel(t, {}))

export_alerts(st) ==
    Map(ById(st["ProjectAlert"]),
        LAMBDA a : [project_slug |-> Row(st["Project"], a.project).slug]
                   @@ SerializeModel(a, {}))

export_alert_recipients(st) ==
    Concat(Map(ById(st["ProjectAlert"]),
        LAMBDA a : Map(ById({r \in st["AlertRecipient"] : r.alert = a.id}),
                       LAMBDA r : SerializeModel(r, {}))))

export_environments(st) ==
    Map(ById(st["Environment"]),
        LAMBDA e : [organization_slug |-> Row(st["Organization"], e.organization).slug]
                   @@ SerializeModel(e, {}))

export_environment_projects(st) ==
    Concat(Map(ById(st["Environment"]),
        LAMBDA e : Map(ById({ep \in st["EnvironmentProject"] : ep.environment = e.id}),
                       LAMBDA ep : [project_slug |-> Row(st["Project"], ep.project).slug,
                                    environment_name |-> e.name]
                                   @@ SerializeModel(ep, {}))))

export_api_tokens(st) ==
    Map(ById(st["APIToken"]),
        LAMBDA t : [user_email |-> Row(st["User"], t.user).email,
                    scopes_list |-> t.scopes]
                   @@ SerializeModel(t, {}))

export_user_project_alerts(st) ==
    Map(ById(st["UserProjectAlert"]),
        LAMBDA a : [user_email |-> Row(st["User"], a.user).email,
                    project_slug |-> Row(st["Project"], a.project).slug]
                   @@ SerializeModel(a, {}))

-----------------------------------------------------------------------------
(* Hand edits of a snapshot (the documents an import can be given)         *)

\* records a hand-written document can hold, per section
EditRecs(sec) ==
    CASE sec = "users" ->
           {[email |-> "a@x.com", name |-> "A", password_hash |-> "h1"],
            [email |-> "b@x.com", name |-> "B", password_hash |-> "h2"]}
      [] sec = "organizations" ->
           {[slug |-> "acme", name |-> "Acme"], [slug |-> "beta", name |-> "Beta"]}
      [] sec = "organization_users" ->
           {[user_email |-> "a@x.com", organization_id |-> "acme", role |-> "member"],
            [user_email |-> "a@x.com", organization_slug |-> "acme", role |-> "member"]}
      [] sec = "projects" ->
           {[slug |-> "web", name |-> "Web", organization_slug |-> "acme"],
            [slug |-> "web", name |-> "Web2", organization_slug |-> "beta"]}
      [] sec = "project_keys" ->
           {[project_id |-> "web", public_key |-> "k1"],
            [project_slug |-> "web", public_key |-> "k2"]}
      [] sec = "project_counters" -> {[project_id |-> "web", value |-> 1]}
      [] sec = "teams" ->
           {[slug |-> "t1", organization_slug |-> "acme",
             member_emails |-> <<"a@x.com", "b@x.com">>, project_slugs |-> <<"web">>]}
      [] sec = "environments" -> {[name |-> "prod", organization_slug |-> "acme"]}
      [] sec = "environment_projects" ->
           {[project_slug |-> "web", environment_name |-> "prod", is_hidden |-> FALSE]}
      [] sec = "project_alerts" -> {[project_slug |-> "web", name |-> "al"]}
      [] sec = "api_tokens" ->
           {[user_email |-> "a@x.com", token |-> "tok1", label |-> "ci",
             scopes_list |-> {"org:read"}]}
      [] OTHER -> {}

\* sections a hand edit may replace by null, and keys it may leave out
NullableSections == {"users", "projects", "api_tokens"}
DroppableSections == {"organization_users"}
\* metadata.version values a hand edit may set (Absent: no version key)
EditVersions == {"2.0", Absent}

AddRecord(doc, sec, rec) == [doc EXCEPT !.data[sec] = Lst(Append(GetList(@), rec))]
SetNull(doc, sec) == [doc EXCEPT !.data[sec] = NullSec]
DropKey(doc, sec) == [doc EXCEPT !.data[sec] = AbsentSec]
SetVersion(doc, v) == [doc EXCEPT !.metadata.version = v]
\* a document without the 'data' key
DropData(doc) == [metadata |-> doc.metadata]

-----------------------------------------------------------------------------
(* State                                                                   *)

VARIABLES
    source,           \* the store the export command is connected to
    xpc,              \* position of the export command
    exp,              \* ConfigExporter.export_data
    file,             \* the snapshot document given to the import command
    edits,            \* hand edits made to the snapshot
    store,            \* the store the import command is connected to
    store0,           \* the store at the start of the open transaction
    export_data,      \* the document held by import_all (records are popped from)
    dry_run,          \* ConfigImporter.dry_run
    phase,            \* the loop of the importer that is running
    idx,              \* position of that loop in its list
    email_to_user,    \* ConfigImporter.email_to_user (email -> primary key of the handle)
    slug_to_org,      \* ConfigImporter.slug_to_org
    slug_to_project,  \* ConfigImporter.slug_to_project
    import_stats,     \* ConfigImporter.import_stats
    result,           \* what import_all returned: "none", "ok", "failed"
    txn,              \* the transaction of import_all: "none", "open", "committed",
                      \* "rolled_back"
    runs,             \* import commands started
    prev              \* report of the previous import command

\* scheduled-restart.py
VARIABLES
    step,             \* position of ScheduledRestarter.execute in its statements
    mode,             \* ScheduledRestarter.mode
    webhook_url,      \* ScheduledRestarter.webhook_url: "unset" or "set"
    pre_checks,       \* results of the health checks made before the restarts
    restart_actions,  \* execute's list of RestartInfo
    post_checks,      \* results of the health checks made after the restarts
    commands,         \* services supervisorctl was asked to restart, in order
    report,           \* the ExecutionReport of execute
    notification,     \* what became of the Feishu notification
    exit_code,        \* exit status of the process, -1 while it runs
    attempts,         \* calls of send_feishu_notification
    handler           \* position of execute in its except branch, "none" outside

restartVars == <<step, mode, webhook_url, pre_checks, restart_actions, post_checks,
                 commands, report, notification, exit_code, attempts, handler>>

\* partition-maintainer.py
VARIABLES
    pm                \* the partition-maintainer process: its position and locals

\* x-user-manager.py
VARIABLES
    db,               \* the users, organizations and memberships of the store
    last              \* the last command of x-user-manager and what it returned

umVars == <<db, last>>

\* scheduled-restart.py, timeout_context
VARIABLES
    tc                \* the process in its guarded health checks: position in
                      \* timeout_context, SIGALRM handler, alarm, exception

toolVars == <<pm, umVars, tc>>

vars == <<source, xpc, exp, file, edits, store, store0, export_data, dry_run, phase,
          idx, email_to_user, slug_to_org, slug_to_project, import_stats, result,
          txn, runs, prev, restartVars, toolVars>>

exportVars == <<source, xpc, exp>>
importVars == <<store, store0, export_data, dry_run, phase, idx, email_to_user,
                slug_to_org, slug_to_project, import_stats, result, txn, runs, prev>>

\* ConfigImporter.__init__
NewStats == [users |-> 0, organizations |-> 0, projects |-> 0, teams |-> 0,
             alerts |-> 0, environments |-> 0, api_tokens |-> 0, errors |-> <<>>]

NoReport == [none |-> TRUE]

\* no ExecutionReport yet
NoExecutionReport == [none |-> TRUE]

\* partition-maintainer.py is not running
MaintainerOff == [pc |-> "off"]

\* no command of x-user-manager.py has run
NoCommandYet == [command |-> "none", email |-> "", arg |-> "", success |-> FALSE]
NoRows == [User |-> {}, Organization |-> {}, OrganizationUser |-> {}]
ManagerOff == db = NoRows /\ last = NoCommandYet

\* the process before its first guarded check: SIGALRM has its default
\* disposition (handler 0) and no alarm is pending (alarm 0)
NoContext ==
    [pc |-> "idle", n |-> 0, handler |-> 0, old_handler |-> 0, alarm |-> 0,
     raised |-> "none", interrupted_by |-> 0, results |-> <<>>]

\* scheduled-restart.py is not running
RestarterOff ==
    /\ step = 0
    /\ mode = "FORCED"
    /\ webhook_url = "unset"
    /\ pre_checks = <<>>
    /\ restart_actions = <<>>
    /\ post_checks = <<>>
    /\ commands = <<>>
    /\ report = NoExecutionReport
    /\ notification = "none"
    /\ exit_code = -1
    /\ attempts = 0
    /\ handler = "none"

Init ==
    /\ RestarterOff
    /\ pm = MaintainerOff
    /\ ManagerOff
    /\ tc = NoContext
    /\ source \in SourceStores
    /\ xpc = "users"
    /\ exp = NewExportData
    /\ file = NoFile
    /\ edits = 0
    /\ store \in TargetStores
    /\ store0 = store
    /\ export_data = NoFile
    /\ dry_run = FALSE
    /\ phase = "idle"
    /\ idx = 1
    /\ email_to_user = <<>>
    /\ slug_to_org = <<>>
    /\ slug_to_project = <<>>
    /\ import_stats = NewStats
    /\ result = "none"
    /\ txn = "none"
    /\ runs = 0
    /\ prev = NoReport

-----------------------------------------------------------------------------
(* The export command: ConfigExporter.export_all and main                  *)

\* Faulty variant: the projects are exported before the organizations
ExportProjectsFirst(p, next, secs) ==
    /\ xpc = p
    /\ xpc' = CASE p = "users" -> "projects"
                [] p = "projects" -> "organizations"
                [] p = "organizations" -> "teams"
                [] OTHER -> next
    /\ exp' = [exp EXCEPT !.data = [s \in Sections |->
                   IF s \in DOMAIN secs THEN Lst(secs[s]) ELSE @[s]]]
    /\ UNCHANGED <<source, file, edits>>
    /\ UNCHANGED <<importVars, restartVars, toolVars>>

\* Faulty variant: a handler that deletes the rows it has read
Emptied(src) == [t \in DOMAIN src |-> {}]

\* the source store after a handler: objects.all() and filter() only read
Queried(src) == src

ExportStep(p, next, secs) ==
    /\ xpc = p
    /\ xpc' = next
    /\ exp' = [exp EXCEPT !.data = [s \in Sections |->
                   IF s \in DOMAIN secs THEN Lst(secs[s]) ELSE @[s]]]
    /\ source' = Queried(source)
    /\ UNCHANGED <<file, edits>>
    /\ UNCHANGED <<importVars, restartVars, toolVars>>

ExportUsers ==
    ExportStep("users", "organizations", [users |-> export_users(source)])

ExportOrganizations ==
    ExportStep("organizations", "projects",
        [organizations |-> Map(ById(source["Organization"]),
                               LAMBDA o : SerializeModel(o, {})),
         organization_users |-> export_org_users(source),
         organization_owners |-> <<>>])

ExportProjects ==
    ExportStep("projects", "teams",
        [projects |-> export_projects(source),
         project_keys |-> export_project_keys(source),
         project_counters |-> export_project_counters(source)])

ExportTeams == ExportStep("teams", "alerts", [teams |-> export_teams(source)])

ExportAlerts ==
    ExportStep("alerts", "environments",
        [project_alerts |-> export_alerts(source),
         alert_recipients |-> export_alert_recipients(source)])

ExportEnvironments ==
    ExportStep("environments", "api_tokens",
        [environments |-> export_environments(source),
         environment_projects |-> export_environment_projects(source)])

ExportApiTokens ==
    ExportStep("api_tokens", "user_project_alerts",
        [api_tokens |-> export_api_tokens(source)])

ExportUserProjectAlerts ==
    ExportStep("user_project_alerts", "done",
        [user_project_alerts |-> export_user_project_alerts(source)])

ExportPhases == {"users", "organizations", "projects", "teams", "alerts",
                 "environments", "api_tokens", "user_project_alerts"}

\* an exception raised while a table is read: export_all returns False and
\* main writes nothing
ExportError ==
    /\ xpc \in ExportPhases
    /\ xpc' = "failed"
    /\ UNCHANGED <<source, exp, file, edits>>
    /\ UNCHANGED <<importVars, restartVars, toolVars>>

\* Faulty variant: main writes the document whatever export_all returned
ExportReturned == xpc \in {"done", "failed"}

\* main: `if exporter.export_all():`
ExportSucceeded == xpc = "done"

\* the exit code of the export command, once it has ended
ExportExit == IF xpc = "written" THEN 0 ELSE 1

\* main: export_all returned True, the document is written out
WriteOutput ==
    /\ ExportSucceeded
    /\ xpc' = "written"
    /\ file' = exp
    /\ UNCHANGED <<source, exp, edits>>
    /\ UNCHANGED <<importVars, restartVars, toolVars>>

\* main: opening or writing the --output file raises; what the file holds
\* then is not a document
WriteFailed ==
    /\ xpc = "done"
    /\ xpc' = "write_failed"
    /\ file' \in {NoFile, Truncated}
    /\ UNCHANGED <<source, exp, edits>>
    /\ UNCHANGED <<importVars, restartVars, toolVars>>

\* the snapshot is edited by hand before it is imported
EditFile ==
    /\ xpc = "written"
    /\ "data" \in DOMAIN file
    /\ runs = 0
    /\ edits < MaxEdits
    /\ edits' = edits + 1
    /\ \/ \E s \in Sections : \E r \in EditRecs(s) : file' = AddRecord(file, s, r)
       \/ \E s \in NullableSections : file' = SetNull(file, s)
       \/ \E s \in DroppableSections : file' = DropKey(file, s)
       \/ \E v \in EditVersions : file' = SetVersion(file, v)
       \/ file' = DropData(file)
    /\ UNCHANGED <<exportVars, restartVars, toolVars>>
    /\ UNCHANGED <<importVars, restartVars, toolVars>>

-----------------------------------------------------------------------------
(* The import command: main and ConfigImporter.import_all                  *)

\* the handlers import_all calls, in its order
HandlerOrder == <<"users", "organizations", "projects", "teams", "environments",
                  "project_alerts", "api_tokens">>

\* the `if ... in data` test in front of each handler
Called(h, data) ==
    IF h = "organizations"
    THEN data["organizations"].st # "absent" /\ data["organization_users"].st # "absent"
    ELSE data[h].st # "absent"

\* the first loop run from the i-th handler on
RECURSIVE From(_, _)
From(i, data) ==
    IF i > Len(HandlerOrder) THEN "done"
    ELSE IF Called(HandlerOrder[i], data) THEN HandlerOrder[i]
    ELSE From(i + 1, data)

\* Faulty variant: the projects are imported before the organizations
ProjectsFirst(p, data) ==
    CASE p = "users" -> "projects"
      [] p = "projects" -> "project_keys"
      [] p = "project_keys" -> "project_counters"
      [] p = "project_counters" -> "organizations"
      [] p = "organizations" -> "organization_users"
      [] p = "organization_users" -> From(4, data)
      [] p = "teams" -> From(5, data)
      [] p = "environments" -> "environment_projects"
      [] p = "environment_projects" -> From(6, data)
      [] p = "project_alerts" -> "alert_recipients"
      [] p = "alert_recipients" -> From(7, data)
      [] p = "api_tokens" -> "done"

\* the loop that follows loop p
NextPhase(p, data) ==
    CASE p = "users" -> From(2, data)
      [] p = "organizations" -> "organization_users"
      [] p = "organization_users" -> From(3, data)
      [] p = "projects" -> "project_keys"
      [] p = "project_keys" -> "project_counters"
      [] p = "project_counters" -> From(4, data)
      [] p = "teams" -> From(5, data)
      [] p = "environments" -> "environment_projects"
      [] p = "environment_projects" -> From(6, data)
      [] p = "project_alerts" -> "alert_recipients"
      [] p = "alert_recipients" -> From(7, data)
      [] p = "api_tokens" -> "done"

LoopPhases == {"users", "organizations", "organization_users", "projects",
               "project_keys", "project_counters", "teams", "environments",
               "environment_projects", "project_alerts", "alert_recipients",
               "api_tokens"}

\* the list the running loop iterates
Items == GetList(export_data.data[phase])
\* the record the running loop is at
Cur == export_data.data[phase].recs[idx]

InLoop(p) ==
    /\ phase = p
    /\ export_data.data[p].st # "null"
    /\ idx <= Len(GetList(export_data.data[p]))

\* Faulty variant: the dry_run test is left out
AlwaysMutating == TRUE

\* `if not self.dry_run:` in front of every store write
Mutating == ~dry_run

\* Faulty variant: the loops run outside a transaction: nothing is undone
NotRolledBack == store

\* the store on leaving `with transaction.atomic()` by an exception
RolledBack == store0

\* log_error
log_error(stats, msg) == [stats EXCEPT !.errors = Append(@, msg)]

Counted(stats, k) == [stats EXCEPT ![k] = @ + 1]

Put(m, k, v) == [x \in DOMAIN m \cup {k} |-> IF x = k THEN v ELSE m[x]]

\* dict.get(key, default) on a scalar key
GetD(rec, key, d) == IF key \in DOMAIN rec THEN rec[key] ELSE d

\* main reads the document and calls import_all on a new ConfigImporter;
\* import_all opens the transaction
MainImport ==
    /\ xpc = "written"
    /\ "data" \in DOMAIN file
    /\ phase \in {"idle", "done", "failed"}
    /\ runs < MaxRuns
    /\ runs' = runs + 1
    /\ prev' = IF runs = 0 THEN NoReport
               ELSE [dry_run |-> dry_run, result |-> result, start |-> store0,
                     errors |-> import_stats.errors]
    /\ dry_run' \in BOOLEAN
    /\ export_data' = file
    /\ store0' = store
    /\ email_to_user' = <<>>
    /\ slug_to_org' = <<>>
    /\ slug_to_project' = <<>>
    /\ import_stats' = NewStats
    /\ idx' = 1
    /\ phase' = From(1, file.data)
    /\ result' = IF From(1, file.data) = "done" THEN "ok" ELSE "none"
    /\ txn' = IF From(1, file.data) = "done" THEN "committed" ELSE "open"
    /\ UNCHANGED <<store, file, edits>>
    /\ UNCHANGED <<exportVars, restartVars, toolVars>>

\* main: the input cannot be read or parsed, or has no 'data' key: exit(1)
\* before an importer is made
MainRejected ==
    /\ "data" \notin DOMAIN file
    /\ phase \in {"idle", "done", "failed"}
    /\ runs < MaxRuns
    /\ runs' = runs + 1
    /\ prev' = IF runs = 0 THEN NoReport
               ELSE [dry_run |-> dry_run, result |-> result, start |-> store0,
                     errors |-> import_stats.errors]
    /\ dry_run' \in BOOLEAN
    /\ export_data' = NoFile
    /\ store0' = store
    /\ email_to_user' = <<>>
    /\ slug_to_org' = <<>>
    /\ slug_to_project' = <<>>
    /\ import_stats' = NewStats
    /\ idx' = 1
    /\ phase' = "idle"
    /\ result' = "rejected"
    /\ txn' = "none"
    /\ UNCHANGED <<store, file, edits>>
    /\ UNCHANGED <<exportVars, restartVars, toolVars>>

\* Faulty variant: a run with per-record errors counts as failed
SuccessWithoutErrors(ret) == ret = "ok" /\ import_stats.errors = <<>>

\* main: `if importer.import_all(export_data): ... success = True`
Success(ret) == ret = "ok"

\* the exit code of the import command, once it has ended
ImportExit == IF Success(result) THEN 0 ELSE 1

\* Faulty variant: a per-record error ends the run
AbortAfterRecordError == "failed"

\* the loop that goes on after a record whose processing ended in log_error
AfterRecordError == phase

\* an iteration that ends in log_error (a `continue`, or the except clause),
\* leaving the transaction in state t
Fail(doc, msg, t) ==
    /\ store' = store
    /\ export_data' = doc
    /\ import_stats' = log_error(import_stats, msg)
    /\ idx' = idx + 1
    /\ phase' = AfterRecordError
    /\ txn' = t
    /\ UNCHANGED <<email_to_user, slug_to_org, slug_to_project>>
    /\ UNCHANGED <<store0, dry_run, result, runs, prev, file, edits>>
    /\ UNCHANGED <<exportVars, restartVars, toolVars>>

Skip(doc, msg) == Fail(doc, msg, txn)

\* one iteration of a loop.  Once a database error has marked the transaction
\* for rollback (txn = "broken"), every store call of the atomic block raises,
\* and the except clause of the iteration logs it
Step(st, doc, e2u, s2o, s2p, stats) ==
    IF txn = "broken" /\ phase # "alert_recipients"
    THEN Skip(doc, <<"record_failed", phase>>)
    ELSE /\ store' = st
         /\ export_data' = doc
         /\ email_to_user' = e2u
         /\ slug_to_org' = s2o
         /\ slug_to_project' = s2p
         /\ import_stats' = stats
         /\ idx' = idx + 1
         /\ phase' = phase
         /\ UNCHANGED <<store0, dry_run, result, txn, runs, prev, file, edits>>
         /\ UNCHANGED <<exportVars, restartVars, toolVars>>

\* the `for` statement has no item left
LoopExhausted == idx > Len(Items)

\* a loop reaches the end of its list; after the last loop import_all
\* returns True and the atomic block is left: the transaction commits, or is
\* rolled back when a database error had marked it for rollback
EndLoop ==
    /\ phase \in LoopPhases
    /\ export_data.data[phase].st # "null"
    /\ LoopExhausted
    /\ phase' = NextPhase(phase, export_data.data)
    /\ idx' = 1
    /\ result' = IF NextPhase(phase, export_data.data) = "done" THEN "ok" ELSE result
    /\ txn' = IF NextPhase(phase, export_data.data) # "done" THEN txn
              ELSE IF txn = "broken" THEN "rolled_back" ELSE "committed"
    /\ store' = IF NextPhase(phase, export_data.data) = "done" /\ txn = "broken"
                THEN RolledBack ELSE store
    /\ UNCHANGED <<store0, export_data, dry_run, email_to_user, slug_to_org,
                   slug_to_project, import_stats, runs, prev, file, edits>>
    /\ UNCHANGED <<exportVars, restartVars, toolVars>>

\* `for x in None`: the TypeError is raised outside the per-record try, leaves
\* the atomic block (rollback) and is caught by import_all, which returns False
LoopTypeError ==
    /\ phase \in LoopPhases
    /\ export_data.data[phase].st = "null"
    /\ store' = RolledBack
    /\ import_stats' = log_error(import_stats, <<"import_failed", phase>>)
    /\ phase' = "failed"
    /\ result' = "failed"
    /\ txn' = "rolled_back"
    /\ UNCHANGED <<store0, export_data, dry_run, idx, email_to_user, slug_to_org,
                   slug_to_project, runs, prev, file, edits>>
    /\ UNCHANGED <<exportVars, restartVars, toolVars>>

-----------------------------------------------------------------------------
(* Outcomes of a record: malformed, unresolved reference, store failure    *)

\* the loop is at a record one of whose references the importer cannot resolve
UnresolvedRef(p, rec) ==
    CASE p = "organization_users" ->
           \/ Get(rec, "organization_id") \notin DOMAIN slug_to_org
           \/ GetD(rec, "user_email", "") \notin DOMAIN email_to_user
      [] p = "projects" ->
           /\ {"name", "slug"} \subseteq DOMAIN rec
           /\ GetD(rec, "organization_slug", "") \notin DOMAIN slug_to_org
      [] p \in {"project_keys", "project_counters"} ->
           Get(rec, "project_id") \notin DOMAIN slug_to_project
      [] p \in {"teams", "environments"} ->
           /\ (IF p = "teams" THEN "slug" ELSE "name") \in DOMAIN rec
           /\ GetD(rec, "organization_slug", "") \notin DOMAIN slug_to_org
      [] p = "environment_projects" ->
           \/ GetD(rec, "project_slug", "") \notin DOMAIN slug_to_project
           \/ ~ \E e \in store["Environment"] :
                   /\ e.name = GetD(rec, "environment_name", "")
                   /\ e.organization =
                        Row(store["Project"], slug_to_project[rec.project_slug]).organization
      [] p = "project_alerts" ->
           GetD(rec, "project_slug", "") \notin DOMAIN slug_to_project
      [] p = "api_tokens" ->
           GetD(rec, "user_email", "") \notin DOMAIN email_to_user
      [] OTHER -> FALSE

\* the record lacks a key the loop reads with [] (KeyError)
Malformed(p, rec) ==
    CASE p = "users" -> "email" \notin DOMAIN rec
      [] p \in {"organizations", "projects"} -> ~ ({"slug", "name"} \subseteq DOMAIN rec)
      [] p = "teams" -> "slug" \notin DOMAIN rec
      [] p = "environments" -> "name" \notin DOMAIN rec
      [] OTHER -> FALSE

\* the processing of the record gets to the store calls under
\* `if not self.dry_run:`
WritesStore(p, rec) ==
    /\ Mutating
    /\ p # "alert_recipients"
    /\ ~Malformed(p, rec)
    /\ ~UnresolvedRef(p, rec)

\* the record as the loop has left it when it gets to the store calls
Popped(p, rec) ==
    CASE p = "organization_users" -> Pop(rec, "user_email")
      [] p = "projects" -> Pop(rec, "organization_slug")
      [] p = "teams" -> Pop(Pop(rec, "member_emails"), "project_slugs")
      [] OTHER -> rec

FailuresIn(errors) ==
    Cardinality({i \in DOMAIN errors : errors[i][1] = "record_failed"})

\* store failures met by an import command and the one before it
Failures ==
    FailuresIn(import_stats.errors)
    + (IF "errors" \in DOMAIN prev THEN FailuresIn(prev.errors) ELSE 0)

\* A store call of the record raises (the database refuses the statement, the
\* connection drops, a model method raises).  The `except Exception` of the
\* iteration logs it and the loop goes on.  A database error marks the
\* transaction for rollback ("broken"); any other exception leaves it open.
StoreFailure ==
    /\ phase \in LoopPhases
    /\ InLoop(phase)
    /\ txn = "open"
    /\ edits + Failures < MaxEdits
    /\ WritesStore(phase, Cur)
    /\ \E t \in {"open", "broken"} :
           Fail([export_data EXCEPT !.data[phase].recs[idx] = Popped(phase, Cur)],
                <<"record_failed", phase>>, t)

-----------------------------------------------------------------------------
(* The loops of the importer, one iteration each                           *)

\* the document with the record the loop is at replaced
SetCur(rec) == [export_data EXCEPT !.data[phase].recs[idx] = rec]

\* Faulty variant: the password is derived anew on import
Rehashed(password_hash) == "rehashed"

\* User.objects.create(password=password_hash): the field is assigned as given
StoredPassword(password_hash) == password_hash

import_users ==
    /\ InLoop("users")
    /\ LET rec == Cur IN
       IF "email" \notin DOMAIN rec
       THEN Skip(export_data, <<"user_failed", "unknown">>)
       ELSE LET email == rec.email
                existing == {u \in store["User"] : u.email = email}
                created == Mutating /\ existing = {}
                st1 == IF created
                       THEN Create(store, "User",
                                [id |-> 0, email |-> email,
                                 name |-> GetD(rec, "name", ""),
                                 password |->
                                     StoredPassword(GetD(rec, "password_hash", ""))])
                       ELSE store
                user == IF ~Mutating THEN 0
                        ELSE IF existing # {} THEN FirstRow(existing).id
                        ELSE NextId(store["User"])
            IN Step(st1, export_data,
                    IF user # 0 THEN Put(email_to_user, email, user) ELSE email_to_user,
                    slug_to_org, slug_to_project, Counted(import_stats, "users"))

import_organizations ==
    /\ InLoop("organizations")
    /\ LET rec == Cur IN
       IF "slug" \notin DOMAIN rec \/ "name" \notin DOMAIN rec
       THEN Skip(export_data, <<"org_failed", GetD(rec, "slug", "unknown")>>)
       ELSE LET slug == rec.slug
                existing == {o \in store["Organization"] : o.slug = slug}
                st1 == IF Mutating /\ existing = {}
                       THEN Create(store, "Organization",
                                [id |-> 0, slug |-> slug, name |-> rec.name])
                       ELSE store
                org == IF ~Mutating THEN 0
                       ELSE IF existing # {} THEN FirstRow(existing).id
                       ELSE NextId(store["Organization"])
            IN Step(st1, export_data, email_to_user,
                    IF org # 0 THEN Put(slug_to_org, slug, org) ELSE slug_to_org,
                    slug_to_project, Counted(import_stats, "organizations"))

import_organization_users ==
    /\ InLoop("organization_users")
    /\ LET rec == Cur
           user_email == GetD(rec, "user_email", "")
           org_slug == Get(rec, "organization_id")
           doc1 == SetCur(Pop(rec, "user_email"))
       IN
       IF org_slug \notin DOMAIN slug_to_org
       THEN Skip(doc1, <<"org_missing", org_slug>>)
       ELSE IF user_email \notin DOMAIN email_to_user
       THEN Skip(doc1, <<"user_missing", user_email>>)
       ELSE LET org == slug_to_org[org_slug]
                user == email_to_user[user_email]
                existing == {ou \in store["OrganizationUser"] :
                                ou.user = user /\ ou.organization = org}
                st1 == IF Mutating /\ existing = {}
                       THEN Create(store, "OrganizationUser",
                                [id |-> 0, user |-> user, organization |-> org,
                                 role |-> GetD(rec, "role", "member"),
                                 email |-> GetD(rec, "email", "")])
                       ELSE store
            IN Step(st1, doc1, email_to_user, slug_to_org, slug_to_project,
                    import_stats)

import_projects ==
    /\ InLoop("projects")
    /\ LET rec == Cur IN
       IF "name" \notin DOMAIN rec \/ "slug" \notin DOMAIN rec
       THEN Skip(export_data, <<"project_failed", GetD(rec, "slug", "unknown")>>)
       ELSE LET slug == rec.slug
                org_slug == GetD(rec, "organization_slug", "")
                doc1 == SetCur(Pop(rec, "organization_slug"))
            IN
            IF org_slug \notin DOMAIN slug_to_org
            THEN Skip(doc1, <<"project_org_missing", org_slug>>)
            ELSE IF ~Mutating
            \* `project` is not bound: the assignment to slug_to_project raises
            THEN Skip(doc1, <<"project_failed", slug>>)
            ELSE LET org == slug_to_org[org_slug]
                     existing == {q \in store["Project"] :
                                     q.slug = slug /\ q.organization = org}
                     st1 == IF existing = {}
                            THEN Create(store, "Project",
                                     [id |-> 0, slug |-> slug, name |-> rec.name,
                                      organization |-> org])
                            ELSE store
                     project == IF existing # {} THEN FirstRow(existing).id
                                ELSE NextId(store["Project"])
                 IN Step(st1, doc1, email_to_user, slug_to_org,
                         Put(slug_to_project, slug, project),
                         Counted(import_stats, "projects"))

import_project_keys ==
    /\ InLoop("project_keys")
    /\ LET rec == Cur
           project_slug == Get(rec, "project_id")
           public_key == Get(rec, "public_key")
       IN
       IF project_slug \notin DOMAIN slug_to_project
       THEN Skip(export_data, <<"key_project_missing", project_slug>>)
       ELSE LET project == slug_to_project[project_slug]
                existing == {k \in store["ProjectKey"] : k.public_key = public_key}
                st1 == IF Mutating /\ existing = {}
                       THEN Create(store, "ProjectKey",
                                [id |-> 0, project |-> project,
                                 public_key |-> public_key])
                       ELSE store
            IN Step(st1, export_data, email_to_user, slug_to_org, slug_to_project,
                    import_stats)

import_project_counters ==
    /\ InLoop("project_counters")
    /\ LET rec == Cur
           project_slug == Get(rec, "project_id")
       IN
       IF project_slug \notin DOMAIN slug_to_project
       THEN Skip(export_data, <<"counter_project_missing", project_slug>>)
       ELSE LET project == slug_to_project[project_slug]
                existing == {c \in store["ProjectCounter"] : c.project = project}
                st1 == IF Mutating /\ existing = {}
                       THEN Create(store, "ProjectCounter",
                                [id |-> 0, project |-> project,
                                 value |-> GetD(rec, "value", 1)])
                       ELSE store
            IN Step(st1, export_data, email_to_user, slug_to_org, slug_to_project,
                    import_stats)

\* team.members.add / team.projects.add
AddToTeam(st, tid, ms, ps) ==
    [st EXCEPT !["Team"] =
        {IF t.id = tid
         THEN [t EXCEPT !.members = @ \cup ms, !.projects = @ \cup ps]
         ELSE t : t \in @}]

import_teams ==
    /\ InLoop("teams")
    /\ LET rec == Cur IN
       IF "slug" \notin DOMAIN rec
       THEN Skip(export_data, <<"team_failed", "unknown">>)
       ELSE LET slug == rec.slug
                org_slug == GetD(rec, "organization_slug", "")
                member_emails == GetSeq(rec, "member_emails")
                project_slugs == GetSeq(rec, "project_slugs")
                doc1 == SetCur(Pop(Pop(rec, "member_emails"), "project_slugs"))
            IN
            IF org_slug \notin DOMAIN slug_to_org
            THEN Skip(doc1, <<"team_org_missing", org_slug>>)
            ELSE IF ~Mutating
            THEN Step(store, doc1, email_to_user, slug_to_org, slug_to_project,
                      Counted(import_stats, "teams"))
            ELSE LET org == slug_to_org[org_slug]
                     existing == {t \in store["Team"] :
                                     t.slug = slug /\ t.organization = org}
                     st1 == IF existing = {}
                            THEN Create(store, "Team",
                                     [id |-> 0, slug |-> slug, organization |-> org,
                                      members |-> {}, projects |-> {}])
                            ELSE store
                     team == IF existing # {} THEN FirstRow(existing).id
                             ELSE NextId(store["Team"])
                     OrgUsers(email) ==
                         {ou \in store["OrganizationUser"] :
                             ou.user = email_to_user[email] /\ ou.organization = org}
                     ms == {FirstRow(OrgUsers(e)).id :
                              e \in {m \in Range(member_emails) :
                                        /\ m \in DOMAIN email_to_user
                                        /\ OrgUsers(m) # {}}}
                     ps == {slug_to_project[q] :
                              q \in Range(project_slugs) \cap DOMAIN slug_to_project}
                 IN Step(AddToTeam(st1, team, ms, ps), doc1, email_to_user,
                         slug_to_org, slug_to_project, Counted(import_stats, "teams"))

import_environments ==
    /\ InLoop("environments")
    /\ LET rec == Cur IN
       IF "name" \notin DOMAIN rec
       THEN Skip(export_data, <<"environment_failed", "unknown">>)
       ELSE LET name == rec.name
                org_slug == GetD(rec, "organization_slug", "")
            IN
            IF org_slug \notin DOMAIN slug_to_org
            THEN Skip(export_data, <<"environment_org_missing", org_slug>>)
            ELSE LET org == slug_to_org[org_slug]
                     existing == {e \in store["Environment"] :
                                     e.name = name /\ e.organization = org}
                     st1 == IF Mutating /\ existing = {}
                            THEN Create(store, "Environment",
                                     [id |-> 0, name |-> name, organization |-> org])
                            ELSE store
                 IN Step(st1, export_data, email_to_user, slug_to_org,
                         slug_to_project, Counted(import_stats, "environments"))

import_environment_projects ==
    /\ InLoop("environment_projects")
    /\ LET rec == Cur
           project_slug == GetD(rec, "project_slug", "")
           env_name == GetD(rec, "environment_name", "")
       IN
       IF project_slug \notin DOMAIN slug_to_project
       THEN Skip(export_data, <<"envproject_project_missing", project_slug>>)
       ELSE LET project == slug_to_project[project_slug]
                org == Row(store["Project"], project).organization
                envs == {e \in store["Environment"] :
                            e.name = env_name /\ e.organization = org}
            IN
            IF envs = {}
            THEN Skip(export_data, IF txn = "broken" THEN <<"record_failed", phase>>
                                   ELSE <<"environment_missing", env_name>>)
            ELSE LET env == FirstRow(envs).id
                     existing == {ep \in store["EnvironmentProject"] :
                                     ep.project = project /\ ep.environment = env}
                     st1 == IF Mutating /\ existing = {}
                            THEN Create(store, "EnvironmentProject",
                                     [id |-> 0, project |-> project,
                                      environment |-> env,
                                      is_hidden |-> GetD(rec, "is_hidden", FALSE)])
                            ELSE store
                 IN Step(st1, export_data, email_to_user, slug_to_org,
                         slug_to_project, import_stats)

import_alerts ==
    /\ InLoop("project_alerts")
    /\ LET rec == Cur
           project_slug == GetD(rec, "project_slug", "")
       IN
       IF project_slug \notin DOMAIN slug_to_project
       THEN Skip(export_data, <<"alert_project_missing", project_slug>>)
       ELSE LET project == slug_to_project[project_slug]
                st1 == IF Mutating
                       THEN Create(store, "ProjectAlert",
                                [id |-> 0, project |-> project,
                                 name |-> GetD(rec, "name", "")])
                       ELSE store
            IN Step(st1, export_data, email_to_user, slug_to_org, slug_to_project,
                    Counted(import_stats, "alerts"))

\* the body of the loop is `pass`
import_alert_recipients ==
    /\ InLoop("alert_recipients")
    /\ Step(store, export_data, email_to_user, slug_to_org, slug_to_project,
            import_stats)

import_api_tokens ==
    /\ InLoop("api_tokens")
    /\ LET rec == Cur
           user_email == GetD(rec, "user_email", "")
           token == GetD(rec, "token", "")
       IN
       IF user_email \notin DOMAIN email_to_user
       THEN Skip(export_data, <<"token_user_missing", user_email>>)
       ELSE LET user == email_to_user[user_email]
                existing == {t \in store["APIToken"] : t.token = token}
                st1 == IF Mutating /\ existing = {}
                       THEN Create(store, "APIToken",
                                [id |-> 0, token |-> token, user |-> user,
                                 scopes |-> GetD(rec, "scopes_list", {})])
                       ELSE store
            IN Step(st1, export_data, email_to_user, slug_to_org, slug_to_project,
                    Counted(import_stats, "api_tokens"))

-----------------------------------------------------------------------------

Next ==
    \/ ExportUsers \/ ExportOrganizations \/ ExportProjects \/ ExportTeams
    \/ ExportAlerts \/ ExportEnvironments \/ ExportApiTokens
    \/ ExportUserProjectAlerts \/ ExportError \/ WriteOutput \/ WriteFailed
    \/ EditFile
    \/ MainImport \/ MainRejected
    \/ import_users \/ import_organizations \/ import_organization_users
    \/ import_projects \/ import_project_keys \/ import_project_counters
    \/ import_teams \/ import_environments \/ import_environment_projects
    \/ import_alerts \/ import_alert_recipients \/ import_api_tokens
    \/ StoreFailure
    \/ EndLoop \/ LoopTypeError

Spec == Init /\ [][Next]_vars

-----------------------------------------------------------------------------
(* scheduled-restart.py: ScheduledRestarter.execute and main               *)

RestartMode == {"FORCED", "CONDITIONAL"}

HealthCheckResult(service, status) == [service |-> service, status |-> status]

\* Faulty variant: celery is restarted first, and the checks that follow the
\* restarts begin before the web restart
CeleryFirst ==
    <<<<"check_postgresql", "pre">>, <<"check_redis", "pre">>,
      <<"check_django_health", "pre">>, <<"check_celery_workers", "pre">>,
      <<"get_system_info", "">>,
      <<"restart_service", "celery">>, <<"check_django_health", "post">>,
      <<"restart_service", "web">>,
      <<"check_celery_workers", "post">>,
      <<"check_postgresql", "post">>, <<"check_redis", "post">>,
      <<"report", "">>, <<"send_feishu_notification", "">>, <<"return", "">>>>

\* the calls of execute in the order of its statements, each with the list
\* its result goes to or with the service it is given
ExecuteOrder ==
    <<<<"check_postgresql", "pre">>, <<"check_redis", "pre">>,
      <<"check_django_health", "pre">>, <<"check_celery_workers", "pre">>,
      <<"get_system_info", "">>,
      <<"restart_service", "web">>, <<"restart_service", "celery">>,
      <<"check_django_health", "post">>, <<"check_celery_workers", "post">>,
      <<"check_postgresql", "post">>, <<"check_redis", "post">>,
      <<"report", "">>, <<"send_feishu_notification", "">>, <<"return", "">>>>

At(op) == step \in DOMAIN ExecuteOrder /\ ExecuteOrder[step][1] = op
Arg == ExecuteOrder[step][2]

Healthy(checks) == \A i \in DOMAIN checks : checks[i].status = "HEALTHY"
Succeeded(actions) == \A i \in DOMAIN actions : actions[i].success

\* Faulty variant: a conditional restart, which restarts nothing when the
\* checks before the restarts are all healthy and leaves celery alone when
\* the web restart did not succeed
ConditionalStatement(i, pre, actions) ==
    IF ExecuteOrder[i][1] = "get_system_info" /\ Healthy(pre) THEN i + 3
    ELSE IF ExecuteOrder[i][1] = "restart_service" /\ ~Succeeded(actions) /\ Len(actions) = 1
    THEN i + 2
    ELSE i + 1

\* the statement execute goes on with: the next one, whatever the checks and
\* the restarts so far have returned
NextStatement(i, pre, actions) == i + 1

xopsVars == <<exportVars, importVars, file, edits>>

\* a health check returns its result: every exception is caught in the check
Check(op, service, status) ==
    /\ At(op)
    /\ IF Arg = "pre"
       THEN /\ pre_checks' = Append(pre_checks, HealthCheckResult(service, status))
            /\ UNCHANGED post_checks
       ELSE /\ post_checks' = Append(post_checks, HealthCheckResult(service, status))
            /\ UNCHANGED pre_checks
    /\ step' = NextStatement(step, pre_checks', restart_actions)
    /\ UNCHANGED <<mode, webhook_url, restart_actions, commands, report,
                   notification, exit_code, attempts, handler>>
    /\ UNCHANGED <<xopsVars, toolVars>>

\* what the connection attempt of a check ends with
ConnectOutcomes == {"ok", "TimeoutError", "Exception"}
ConnectStatus(outcome) == IF outcome = "ok" THEN "HEALTHY" ELSE "UNHEALTHY"

check_postgresql ==
    \E outcome \in ConnectOutcomes :
        Check("check_postgresql", "postgresql", ConnectStatus(outcome))

check_redis ==
    \E outcome \in ConnectOutcomes : Check("check_redis", "redis", ConnectStatus(outcome))

\* the status code of /_health/, or the exception of the request
HealthResponses == {"200", "500", "TimeoutError", "Exception"}

check_django_health ==
    \E response \in HealthResponses :
        Check("check_django_health", "django",
              IF response = "200" THEN "HEALTHY" ELSE "UNHEALTHY")

\* the number of celery worker processes found
WorkerCounts == {0, 1}

check_celery_workers ==
    \E worker_count \in WorkerCounts : \E raised \in BOOLEAN :
        Check("check_celery_workers", "celery",
              IF ~raised /\ worker_count > 0 THEN "HEALTHY" ELSE "UNHEALTHY")

\* its result is kept for the report only
get_system_info ==
    /\ At("get_system_info")
    /\ step' = NextStatement(step, pre_checks, restart_actions)
    /\ UNCHANGED <<mode, webhook_url, pre_checks, restart_actions, post_checks,
                   commands, report, notification, exit_code, attempts, handler>>
    /\ UNCHANGED <<xopsVars, toolVars>>

\* what subprocess.run raised, with "none" for a normal return
RunRaises == {"none", "TimeoutExpired", "Exception"}
ReturnCodes == {0, 1}
\* the pids found after the restart
NewPids == {<<>>, <<12>>}

RestartInfo(service, raised, returncode, new_pids) ==
    IF raised = "TimeoutExpired"
    THEN [service |-> service, success |-> FALSE, message |-> "timeout"]
    ELSE IF raised = "Exception"
    THEN [service |-> service, success |-> FALSE, message |-> "exception"]
    ELSE IF returncode = 0
    THEN [service |-> service, success |-> Len(new_pids) > 0,
          message |-> IF Len(new_pids) > 0 THEN "restarted" ELSE "not_running"]
    ELSE [service |-> service, success |-> FALSE, message |-> "failed"]

restart_service ==
    /\ At("restart_service")
    /\ commands' = Append(commands, Arg)
    /\ \E raised \in RunRaises : \E returncode \in ReturnCodes :
       \E new_pids \in NewPids :
           restart_actions' =
               Append(restart_actions, RestartInfo(Arg, raised, returncode, new_pids))
    /\ step' = NextStatement(step, pre_checks, restart_actions')
    /\ UNCHANGED <<mode, webhook_url, pre_checks, post_checks, report, notification,
                   exit_code, attempts, handler>>
    /\ UNCHANGED <<xopsVars, toolVars>>

\* Faulty variant: a run whose checks before the restarts were not all
\* healthy is reported as failed
AllChecksHealthy(pre, post, actions) ==
    Healthy(pre) /\ Healthy(post) /\ Succeeded(actions)

\* the success flag of a run that reached its evaluation; the checks made
\* before the restarts are not read
Evaluated(pre, post, actions) ==
    LET all_services_ok == Healthy(post)
        all_restarts_ok == Succeeded(actions)
    IN all_services_ok /\ all_restarts_ok

\* execute evaluates the run and builds its ExecutionReport
BuildReport ==
    /\ At("report")
    /\ LET success == Evaluated(pre_checks, post_checks, restart_actions)
       IN report' = [mode |-> mode, success |-> success,
                     message |-> IF success THEN "normal" ELSE "abnormal"]
    /\ step' = step + 1
    /\ UNCHANGED <<mode, webhook_url, pre_checks, restart_actions, post_checks,
                   commands, notification, exit_code, attempts, handler>>
    /\ UNCHANGED <<xopsVars, toolVars>>

\* the status code of the webhook, or the exception of the request
WebhookResponses == {"200", "400", "Exception"}

\* one call of send_feishu_notification: it returns on every path
Notify ==
    /\ IF webhook_url = "unset"
       THEN notification' = "skipped"
       ELSE \E response \in WebhookResponses :
               notification' = CASE response = "200" -> "sent"
                                 [] response = "400" -> "rejected"
                                 [] OTHER -> "exception"
    /\ attempts' = attempts + 1

send_feishu_notification ==
    /\ At("send_feishu_notification")
    /\ Notify
    /\ step' = step + 1
    /\ UNCHANGED <<mode, webhook_url, pre_checks, restart_actions, post_checks,
                   commands, report, exit_code, handler>>
    /\ UNCHANGED <<xopsVars, toolVars>>

\* execute returns the report and main exits
ExitCode(rep) == IF rep.success THEN 0 ELSE 1

RestartMain ==
    /\ At("return")
    /\ exit_code' = ExitCode(report)
    /\ step' = step + 1
    /\ UNCHANGED <<mode, webhook_url, pre_checks, restart_actions, post_checks,
                   commands, report, notification, attempts, handler>>
    /\ UNCHANGED <<xopsVars, toolVars>>

\* a statement of the try block of execute raises an Exception: the lists
\* keep what had been assigned to them and the except branch is entered
ExecuteRaises ==
    /\ step \in DOMAIN ExecuteOrder
    /\ handler = "none"
    /\ pre_checks' = IF Arg = "pre" THEN <<>> ELSE pre_checks
    /\ post_checks' = IF Arg # "post" THEN post_checks
                      ELSE IF Len(post_checks) < 2 THEN <<>>
                      ELSE SubSeq(post_checks, 1, 2)
    /\ step' = Len(ExecuteOrder) + 1
    /\ handler' = "report"
    /\ UNCHANGED <<mode, webhook_url, restart_actions, commands, report,
                   notification, exit_code, attempts>>
    /\ UNCHANGED <<xopsVars, toolVars>>

\* the except branch builds its ExecutionReport
ExceptReport ==
    /\ handler = "report"
    /\ report' = [mode |-> mode, success |-> FALSE, message |-> "exception"]
    /\ handler' = "notify"
    /\ UNCHANGED <<step, mode, webhook_url, pre_checks, restart_actions, post_checks,
                   commands, notification, exit_code, attempts>>
    /\ UNCHANGED <<xopsVars, toolVars>>

\* the except branch sends the report
ExceptNotify ==
    /\ handler = "notify"
    /\ Notify
    /\ handler' = "return"
    /\ UNCHANGED <<step, mode, webhook_url, pre_checks, restart_actions, post_checks,
                   commands, report, exit_code>>
    /\ UNCHANGED <<xopsVars, toolVars>>

\* the except branch returns the report and main exits
ExceptReturn ==
    /\ handler = "return"
    /\ exit_code' = ExitCode(report)
    /\ handler' = "done"
    /\ UNCHANGED <<step, mode, webhook_url, pre_checks, restart_actions, post_checks,
                   commands, report, notification, attempts>>
    /\ UNCHANGED <<xopsVars, toolVars>>

\* the export and import commands do not run
XopsOff ==
    /\ source = EmptyStore
    /\ xpc = "users"
    /\ exp = NewExportData
    /\ file = NoFile
    /\ edits = 0
    /\ store = EmptyStore
    /\ store0 = EmptyStore
    /\ export_data = NoFile
    /\ dry_run = FALSE
    /\ phase = "idle"
    /\ idx = 1
    /\ email_to_user = <<>>
    /\ slug_to_org = <<>>
    /\ slug_to_project = <<>>
    /\ import_stats = NewStats
    /\ result = "none"
    /\ txn = "none"
    /\ runs = 0
    /\ prev = NoReport

\* ScheduledRestarter.__init__; the export and import commands do not run
RestartInit ==
    /\ step = 1
    /\ mode \in RestartMode
    /\ webhook_url \in {"unset", "set"}
    /\ pre_checks = <<>>
    /\ restart_actions = <<>>
    /\ post_checks = <<>>
    /\ commands = <<>>
    /\ report = NoExecutionReport
    /\ notification = "none"
    /\ exit_code = -1
    /\ attempts = 0
    /\ handler = "none"
    /\ pm = MaintainerOff
    /\ ManagerOff
    /\ tc = NoContext
    /\ XopsOff

RestartNext ==
    \/ check_postgresql \/ check_redis \/ check_django_health
    \/ check_celery_workers \/ get_system_info \/ restart_service
    \/ BuildReport \/ send_feishu_notification \/ RestartMain

RestartSpec == RestartInit /\ [][RestartNext]_vars

\* every call of execute returns: the checks and the restart command run
\* under timeouts and the sleeps are finite
RestartLive == RestartSpec /\ WF_vars(RestartNext)

\* runs in which a statement of execute itself may raise
RestartFaultNext ==
    \/ RestartNext
    \/ ExecuteRaises \/ ExceptReport \/ ExceptNotify \/ ExceptReturn

RestartFaultSpec == RestartInit /\ [][RestartFaultNext]_vars

RestartFaultLive ==
    /\ RestartFaultSpec
    /\ WF_vars(RestartNext)
    /\ WF_vars(ExceptReport \/ ExceptNotify \/ ExceptReturn)

-----------------------------------------------------------------------------
(* partition-maintainer.py                                                 *)

\* the file /code/.env: none, one without the webhook key, one that sets the
\* webhook, one that sets it to the empty string, one with a line "=value"
EnvFiles == {"absent", "other", "webhook", "blank", "malformed"}

\* FEISHU_GROUP_DEVOPS_ROBOT_WEBHOOK_URL after load_env
LoadedWebhook(env_file, environ) ==
    CASE env_file = "webhook" -> "set"
      [] env_file = "blank" -> ""
      [] OTHER -> environ

\* os.environ[key] = value raises for the empty key
load_env ==
    /\ pm.pc = "load_env"
    /\ IF pm.env_file = "malformed"
       THEN pm' = [pm EXCEPT !.pc = "crashed", !.exit_code = 1]
       ELSE pm' = [pm EXCEPT !.pc = "run",
                             !.webhook_url = LoadedWebhook(pm.env_file, @)]
    /\ UNCHANGED <<xopsVars, restartVars, umVars, tc>>

\* a line of the output of pgpartition: its first word, and whether it holds
\* "partitions will be created"
OutputLines == {[first |-> "3", marker |-> TRUE], [first |-> "no", marker |-> TRUE],
                [first |-> "ok", marker |-> FALSE]}
MaxLines == 2
Outputs == UNION {[1..n -> OutputLines] : n \in 0..MaxLines}

\* int(line.split()[0]), -1 for ValueError
ParseInt(word) == IF word = "3" THEN 3 ELSE -1

\* the count of the last line that names one
RECURSIVE CountIn(_, _)
CountIn(lines, count) ==
    IF lines = <<>> THEN count
    ELSE LET line == Head(lines)
             n == IF line.marker /\ ParseInt(line.first) >= 0
                  THEN ParseInt(line.first) ELSE count
         IN CountIn(Tail(lines), n)

\* what run_partition_maintenance returns
Maintenance(raised, returncode, stdout) ==
    IF raised = "TimeoutExpired"
    THEN [success |-> FALSE, stdout |-> <<>>, stderr |-> "timeout", partition_count |-> 0]
    ELSE IF raised = "Exception"
    THEN [success |-> FALSE, stdout |-> <<>>, stderr |-> "exception", partition_count |-> 0]
    ELSE LET success == returncode = 0
         IN [success |-> success, stdout |-> stdout,
             stderr |-> IF success THEN "" ELSE "error",
             partition_count |-> IF success THEN CountIn(stdout, 0) ELSE 0]

run_partition_maintenance ==
    /\ pm.pc = "run"
    /\ \E raised \in RunRaises : \E returncode \in ReturnCodes : \E stdout \in Outputs :
           pm' = [pm EXCEPT !.pc = "notify",
                            !.command = [raised |-> raised, returncode |-> returncode],
                            !.result = Maintenance(raised, returncode, stdout)]
    /\ UNCHANGED <<xopsVars, restartVars, umVars, tc>>

\* what the webhook answers: status 200 with code 0, status 200 with another
\* code, another status, or the exception of the request
HookResponses == {"200:0", "200:19001", "500", "Exception"}

partition_notification ==
    /\ pm.pc = "notify"
    /\ IF pm.webhook_url # "set"
       THEN pm' = [pm EXCEPT !.pc = "exit", !.attempts = @ + 1,
                             !.notification_sent = FALSE]
       ELSE \E response \in HookResponses :
               pm' = [pm EXCEPT !.pc = "exit", !.attempts = @ + 1,
                                !.notification_sent = (response = "200:0")]
    /\ UNCHANGED <<xopsVars, restartVars, umVars, tc>>

\* Faulty variant: a run whose notification failed exits 1
ExitNeedsNotification(success, notification_sent) ==
    IF success /\ notification_sent THEN 0 ELSE 1

\* sys.exit(0 if success else 1)
MaintainerExit(success, notification_sent) == IF success THEN 0 ELSE 1

partition_main ==
    /\ pm.pc = "exit"
    /\ pm' = [pm EXCEPT !.pc = "exited",
                        !.exit_code = MaintainerExit(pm.result.success,
                                                     pm.notification_sent)]
    /\ UNCHANGED <<xopsVars, restartVars, umVars, tc>>

NoCommand == [raised |-> "none", returncode |-> -1]
NoMaintenance == [success |-> FALSE, stdout |-> <<>>, stderr |-> "", partition_count |-> 0]

\* the process starts; the restarter and the export and import commands do
\* not run
PartitionInit ==
    /\ \E env_file \in EnvFiles : \E environ \in {"unset", "set"} :
           pm = [pc |-> "load_env", env_file |-> env_file, webhook_url |-> environ,
                 command |-> NoCommand, result |-> NoMaintenance, attempts |-> 0,
                 notification_sent |-> FALSE, exit_code |-> -1]
    /\ RestarterOff
    /\ ManagerOff
    /\ tc = NoContext
    /\ XopsOff

PartitionNext ==
    \/ load_env \/ run_partition_maintenance \/ partition_notification
    \/ partition_main

PartitionSpec == PartitionInit /\ [][PartitionNext]_vars

-----------------------------------------------------------------------------
(* x-user-manager.py: one action for a command of main                     *)

Emails == {"a@x.com", "b@x.com"}
\* the optional arguments: "" stands for an argument that is not given
Passwords == {"", "p1"}
OrgNames == {"Acme"}
Flags == {"true", "false"}

\* the smallest primary key not in use
FreeId(rows) == CHOOSE i \in 1..(Cardinality(rows) + 1) : \A r \in rows : r.id # i

ByEmail(email) == {u \in db.User : u.email = email}
ByName(name) == {o \in db.Organization : o.name = name}

\* Faulty variant: a users table without the unique index on email
SavedAnyway(users, user) ==
    [raised |-> "none", rows |-> {u \in users : u.id # user.id} \cup {user}]

\* user.save(): the users table has a unique index on email, the
\* USERNAME_FIELD of the model, and the UPDATE of a used email raises
\* IntegrityError
Saved(users, user) ==
    IF \E u \in users : u.id # user.id /\ u.email = user.email
    THEN [raised |-> "IntegrityError", rows |-> users]
    ELSE [raised |-> "none", rows |-> {u \in users : u.id # user.id} \cup {user}]

\* the command returns
Returns(command, email, arg, success, rows) ==
    /\ last' = [command |-> command, email |-> email, arg |-> arg, success |-> success]
    /\ db' = rows
    /\ UNCHANGED <<xopsVars, restartVars, pm, tc>>

create_user ==
    \E username \in {"", "A"} : \E email \in Emails \cup {""} :
    \E password \in Passwords : \E db_error \in BOOLEAN :
        IF username = "" \/ email = "" \/ ByEmail(email) # {} \/ db_error
        THEN Returns("create", email, "", FALSE, db)
        ELSE Returns("create", email, "", TRUE,
                 [db EXCEPT !.User = @ \cup
                     {[id |-> FreeId(@), email |-> email,
                       password |-> IF password = "" THEN "random" ELSE password,
                       is_superuser |-> FALSE, is_staff |-> FALSE,
                       is_active |-> TRUE]}])

\* a command that gets the user, changes the object and saves it
Update(command, email, arg, Changed(_)) ==
    IF ByEmail(email) = {}
    THEN Returns(command, email, arg, FALSE, db)
    ELSE LET user == CHOOSE u \in ByEmail(email) : TRUE
             saved == Saved(db.User, Changed(user))
         IN IF saved.raised # "none"
            THEN Returns(command, email, arg, FALSE, db)
            ELSE Returns(command, email, arg, TRUE, [db EXCEPT !.User = saved.rows])

update_user ==
    \E email \in Emails : \E new_email \in Emails \cup {""} :
    \E new_password \in Passwords :
        Update("update", email, new_email,
               LAMBDA user :
                   [user EXCEPT !.email = IF new_email # "" THEN new_email ELSE @,
                                !.password = IF new_password # "" THEN new_password
                                             ELSE @])

\* the memberships of a deleted user go with it
delete_user ==
    \E email \in Emails :
        IF ByEmail(email) = {}
        THEN Returns("delete", email, "", FALSE, db)
        ELSE LET user == CHOOSE u \in ByEmail(email) : TRUE
             IN Returns("delete", email, "", TRUE,
                    [db EXCEPT !.User = @ \ {user},
                               !.OrganizationUser = {m \in @ : m.user # user.id}])

set_superuser ==
    \E email \in Emails : \E is_superuser \in Flags :
        Update("superuser", email, is_superuser,
               LAMBDA user : [user EXCEPT !.is_superuser = (is_superuser = "true")])

set_staff ==
    \E email \in Emails : \E is_staff \in Flags :
        Update("staff", email, is_staff,
               LAMBDA user : [user EXCEPT !.is_staff = (is_staff = "true")])

set_active ==
    \E email \in Emails : \E is_active \in Flags :
        Update("active", email, is_active,
               LAMBDA user : [user EXCEPT !.is_active = (is_active = "true")])

reset_password ==
    \E email \in Emails : \E new_password \in Passwords :
        Update("reset-password", email, new_password,
               LAMBDA user :
                   [user EXCEPT !.password = IF new_password = "" THEN "random"
                                             ELSE new_password])

\* the slug is made from the name and made unique
NewSlug(name, orgs) == IF orgs = {} THEN "acme" ELSE "acme-2"

create_organization ==
    \E name \in OrgNames \cup {""} :
        IF name = "" \/ ByName(name) # {}
        THEN Returns("create-org", "", name, FALSE, db)
        ELSE Returns("create-org", "", name, TRUE,
                 [db EXCEPT !.Organization = @ \cup
                     {[id |-> FreeId(@), name |-> name, slug |-> NewSlug(name, @)]}])

\* the memberships after the existence test and organization.add_user
Added(members, user, organization) ==
    IF \E m \in members : m.user = user /\ m.organization = organization
    THEN members
    ELSE members \cup
           {[id |-> FreeId(members), user |-> user, organization |-> organization]}

\* Organization.objects.get(name=...) raises MultipleObjectsReturned when
\* two organizations have the name; the generic handler returns False
add_user_to_organization ==
    \E email \in Emails : \E org_name \in OrgNames :
        IF ByEmail(email) = {} \/ Cardinality(ByName(org_name)) # 1
        THEN Returns("add-to-org", email, org_name, FALSE, db)
        ELSE LET user == CHOOSE u \in ByEmail(email) : TRUE
                 organization == CHOOSE o \in ByName(org_name) : TRUE
             IN Returns("add-to-org", email, org_name, TRUE,
                    [db EXCEPT !.OrganizationUser = Added(@, user.id, organization.id)])

remove_user_from_organization ==
    \E email \in Emails : \E org_name \in OrgNames :
        IF ByEmail(email) = {} \/ Cardinality(ByName(org_name)) # 1
        THEN Returns("remove-from-org", email, org_name, FALSE, db)
        ELSE LET user == CHOOSE u \in ByEmail(email) : TRUE
                 organization == CHOOSE o \in ByName(org_name) : TRUE
             IN Returns("remove-from-org", email, org_name, TRUE,
                    [db EXCEPT !.OrganizationUser =
                        {m \in @ : ~(m.user = user.id /\ m.organization = organization.id)}])

\* stores the commands find: an empty one, one organization, and two
\* organizations of one name, which the import command makes from a document
\* with two slugs of that name
TwoOfAName == {[id |-> 1, name |-> "Acme", slug |-> "acme"],
               [id |-> 2, name |-> "Acme", slug |-> "acme-2"]}
ManagerStores ==
    {NoRows,
     [NoRows EXCEPT !.Organization = {[id |-> 1, name |-> "Acme", slug |-> "acme"]}],
     [NoRows EXCEPT !.Organization = TwoOfAName]}

ManagerInit ==
    /\ db \in ManagerStores
    /\ last = NoCommandYet
    /\ pm = MaintainerOff
    /\ tc = NoContext
    /\ RestarterOff
    /\ XopsOff

ManagerNext ==
    \/ create_user \/ update_user \/ delete_user \/ set_superuser \/ set_staff
    \/ set_active \/ reset_password \/ create_organization
    \/ add_user_to_organization \/ remove_user_from_organization

ManagerSpec == ManagerInit /\ [][ManagerNext]_vars

-----------------------------------------------------------------------------
(* scheduled-restart.py: timeout_context, one action for a statement, and  *)
(* SIGALRM, which arrives between any two of them while the alarm is set   *)

\* the checks of execute that run under timeout_context, in its order
GuardedChecks == <<"PostgreSQL", "Redis", "Django", "Django", "PostgreSQL", "Redis">>

\* UNCHANGED for a step of the guarded checks
TimeoutFrame == UNCHANGED <<xopsVars, restartVars, pm, umVars>>

\* `with timeout_context(10):` -- old_handler = signal.signal(SIGALRM,
\* timeout_handler); the handler of the n-th call is handler n
InstallHandler ==
    /\ tc.pc = "idle"
    /\ tc.n < Len(GuardedChecks)
    /\ tc' = [tc EXCEPT !.pc = "try", !.n = @ + 1, !.old_handler = tc.handler,
                        !.handler = tc.n + 1, !.raised = "none",
                        !.interrupted_by = 0]
    /\ TimeoutFrame

\* signal.alarm(int(seconds)); yield
SetAlarm ==
    /\ tc.pc = "try"
    /\ tc' = [tc EXCEPT !.pc = "body", !.alarm = tc.n]
    /\ TimeoutFrame

\* the guarded block ends, with or without an exception of its own
BlockEnds ==
    /\ tc.pc = "body"
    /\ \E raised \in {"none", "Exception"} :
           tc' = [tc EXCEPT !.pc = "finally", !.raised = raised]
    /\ TimeoutFrame

\* where the process can be when the alarm set at line 172 goes off: in the
\* block, or past it and before signal.alarm(0) has run
WhileAlarmSet(pc) == pc \in {"body", "finally"}

\* SIGALRM arrives and timeout_handler raises TimeoutError where the process
\* is: in the block the finally clause follows; in the finally clause the
\* exception leaves it and the statements of the clause left over do not run
Alarm ==
    /\ tc.alarm # 0
    /\ tc.handler # 0
    /\ WhileAlarmSet(tc.pc)
    /\ tc' = [tc EXCEPT !.pc = IF tc.pc = "body" THEN "finally" ELSE "left",
                        !.alarm = 0, !.raised = "TimeoutError",
                        !.interrupted_by = tc.alarm]
    /\ TimeoutFrame

\* finally: signal.alarm(0)
CancelAlarm ==
    /\ tc.pc = "finally"
    /\ tc' = [tc EXCEPT !.pc = "restore", !.alarm = 0]
    /\ TimeoutFrame

\* signal.signal(signal.SIGALRM, old_handler)
RestoreHandler ==
    /\ tc.pc = "restore"
    /\ tc' = [tc EXCEPT !.pc = "left", !.handler = tc.old_handler]
    /\ TimeoutFrame

\* the with statement is left; the except clauses of the check make the
\* result of what was raised
CheckReturns ==
    /\ tc.pc = "left"
    /\ tc' = [tc EXCEPT !.pc = "idle",
                        !.results = Append(@,
                            IF tc.raised = "none" THEN "HEALTHY" ELSE "UNHEALTHY")]
    /\ TimeoutFrame

TimeoutInit ==
    /\ tc = NoContext
    /\ pm = MaintainerOff
    /\ ManagerOff
    /\ RestarterOff
    /\ XopsOff

TimeoutNext ==
    \/ InstallHandler \/ SetAlarm \/ BlockEnds \/ Alarm \/ CancelAlarm
    \/ RestoreHandler \/ CheckReturns

TimeoutSpec == TimeoutInit /\ [][TimeoutNext]_vars

-----------------------------------------------------------------------------
(* What the claims speak of                                                *)

\* the version the exporter writes, the only one a snapshot can be expected in
SupportedVersions == {"1.0"}

\* the entity types of the data model
SpecTables == Tables \ {"UserProjectAlert"}

OrgSlug(st, id) == Row(st["Organization"], id).slug
ProjectRef(st, id) ==
    LET q == Row(st["Project"], id) IN <<OrgSlug(st, q.organization), q.slug>>

\* the natural key of a row, parents named by their own natural keys
NaturalKey(st, t, r) ==
    CASE t = "User" -> <<r.email>>
      [] t = "Organization" -> <<r.slug>>
      [] t = "OrganizationUser" -> <<MemberEmail(st, r), OrgSlug(st, r.organization)>>
      [] t = "Project" -> ProjectRef(st, r.id)
      [] t = "ProjectKey" -> <<r.public_key>>
      [] t = "ProjectCounter" -> ProjectRef(st, r.project)
      [] t = "Team" -> <<OrgSlug(st, r.organization), r.slug>>
      [] t = "Environment" -> <<OrgSlug(st, r.organization), r.name>>
      [] t = "EnvironmentProject" ->
           ProjectRef(st, r.project) \o <<Row(st["Environment"], r.environment).name>>
      [] t = "ProjectAlert" -> ProjectRef(st, r.project) \o <<r.name>>
      [] t = "AlertRecipient" -> <<r.id>>
      [] t = "APIToken" -> <<r.token>>

KeyedTables == SpecTables \ {"AlertRecipient"}

\* the relationships of a store, every end named by its natural key
Topology(st) ==
    [OrganizationUser |-> {NaturalKey(st, "OrganizationUser", r) :
                              r \in st["OrganizationUser"]},
     Project |-> {ProjectRef(st, r.id) : r \in st["Project"]},
     ProjectKey |-> {<<ProjectRef(st, r.project), r.public_key>> : r \in st["ProjectKey"]},
     ProjectCounter |-> {ProjectRef(st, r.project) : r \in st["ProjectCounter"]},
     Team |-> {<<OrgSlug(st, r.organization), r.slug,
                 {MemberEmail(st, Row(st["OrganizationUser"], m)) : m \in r.members},
                 {ProjectRef(st, q) : q \in r.projects}>> : r \in st["Team"]},
     Environment |-> {NaturalKey(st, "Environment", r) : r \in st["Environment"]},
     EnvironmentProject |-> {NaturalKey(st, "EnvironmentProject", r) :
                                r \in st["EnvironmentProject"]},
     ProjectAlert |-> {NaturalKey(st, "ProjectAlert", r) : r \in st["ProjectAlert"]},
     APIToken |-> {<<r.token, Row(st["User"], r.user).email>> : r \in st["APIToken"]}]

\* ... or one of the references of its lists (a team's members and projects)
UnresolvedListRef(p, rec) ==
    /\ p = "teams"
    /\ "slug" \in DOMAIN rec
    /\ \/ \E m \in Range(GetSeq(rec, "member_emails")) : m \notin DOMAIN email_to_user
       \/ \E q \in Range(GetSeq(rec, "project_slugs")) : q \notin DOMAIN slug_to_project

AtRecord == phase \in LoopPhases /\ InLoop(phase)

\* natural keys the records of the document given to the import introduce
DocRecs(sec) == Range(GetList(file.data[sec]))
DocEmails == {r.email : r \in {x \in DocRecs("users") : "email" \in DOMAIN x}}
DocOrgSlugs == {r.slug : r \in {x \in DocRecs("organizations") : "slug" \in DOMAIN x}}
DocProjects ==
    {<<r.organization_slug, r.slug>> :
        r \in {x \in DocRecs("projects") :
                 /\ {"slug", "name", "organization_slug"} \subseteq DOMAIN x
                 /\ x.organization_slug \in DocOrgSlugs}}
DocProjectSlugs == {q[2] : q \in DocProjects}
DocEnvironments ==
    {<<r.organization_slug, r.name>> :
        r \in {x \in DocRecs("environments") :
                 /\ {"name", "organization_slug"} \subseteq DOMAIN x
                 /\ x.organization_slug \in DocOrgSlugs}}

\* the natural key by which a record names its organization / its project
OrgRefOf(rec) ==
    IF "organization_slug" \in DOMAIN rec THEN rec.organization_slug
    ELSE Get(rec, "organization_id")
ProjectRefOf(rec) ==
    IF "project_slug" \in DOMAIN rec THEN rec.project_slug ELSE Get(rec, "project_id")

\* every natural key the record refers to is introduced by the document
RefsIntroduced(p, rec) ==
    CASE p = "organization_users" ->
           Get(rec, "user_email") \in DocEmails /\ OrgRefOf(rec) \in DocOrgSlugs
      [] p = "projects" ->
           {"name", "slug"} \subseteq DOMAIN rec /\ OrgRefOf(rec) \in DocOrgSlugs
      [] p \in {"project_keys", "project_counters", "project_alerts"} ->
           ProjectRefOf(rec) \in DocProjectSlugs
      [] p = "teams" -> "slug" \in DOMAIN rec /\ OrgRefOf(rec) \in DocOrgSlugs
      [] p = "environments" -> "name" \in DOMAIN rec /\ OrgRefOf(rec) \in DocOrgSlugs
      [] p = "environment_projects" ->
           \E q \in DocProjects :
               /\ q[2] = ProjectRefOf(rec)
               /\ <<q[1], Get(rec, "environment_name")>> \in DocEnvironments
      [] p = "api_tokens" -> Get(rec, "user_email") \in DocEmails
      [] OTHER -> FALSE

-----------------------------------------------------------------------------
(* Claims                                                                  *)

\* C1: once an Apply import of a document has succeeded, a second Apply import
\* of the same document creates no entity: the store stays as it was when the
\* second import began.
C1_SecondImportCreatesNothing ==
    (runs >= 2 /\ ~dry_run /\ ~prev.dry_run /\ prev.result = "ok") => store = store0

\* C2: no two rows of a table share a natural key, whatever was imported.
C2_NoDuplicateNaturalKeys ==
    \A t \in KeyedTables : \A a, b \in store[t] :
        NaturalKey(store, t, a) = NaturalKey(store, t, b) => a = b

\* C3: the exported document of a store, imported in Apply mode into an empty
\* store, gives a store with as many rows of every type and the same
\* relationships by natural key.
C3_RoundTrip ==
    (phase = "done" /\ runs = 1 /\ ~dry_run /\ edits = 0 /\ store0 = EmptyStore)
    => /\ \A t \in SpecTables : Cardinality(store[t]) = Cardinality(source[t])
       /\ Topology(store) = Topology(source)

\* C4: a DryRun import and an Apply import of the same document from the same
\* store report the same per-record errors.
C4_DryRunFidelity ==
    (runs >= 2 /\ phase \in {"done", "failed"} /\ ~dry_run /\ prev.dry_run
       /\ prev.start = store0)
    => Range(import_stats.errors) = Range(prev.errors)

\* C5: a DryRun import never changes the store: at every point of the run, and
\* after it whether it succeeded or failed, the store is the one it started from.
C5_DryRunLeavesStore == dry_run => store = store0

\* a DryRun import that went through user records and reported errors has ended
C5_Witness ==
    /\ dry_run
    /\ phase = "done"
    /\ import_stats.users > 0
    /\ import_stats.errors # <<>>

\* C6: an Apply import that ends in failure leaves the store as it was before
\* the import; the transaction is rolled back, and no import ends with the
\* transaction still open.
C6_FailedApplyRestoresStore ==
    /\ (phase = "failed" /\ ~dry_run) => (store = store0 /\ txn = "rolled_back")
    /\ phase \in {"idle", "done", "failed"} => txn # "open"

\* a failed Apply import that had created a user: the handle is of no row
C6_Witness ==
    /\ phase = "failed"
    /\ ~dry_run
    /\ \E e \in DOMAIN email_to_user : email_to_user[e] \notin Ids(store["User"])

\* C7: an import of a document whose version is not supported (or absent)
\* processes no record, changes nothing and does not end in success.
C7_VersionGate ==
    (phase # "idle" /\ export_data.metadata.version \notin SupportedVersions)
    => (store = store0 /\ idx = 1 /\ phase # "done")

C9_NoSilentDrop ==
    [][(AtRecord /\ (UnresolvedRef(phase, Cur) \/ UnresolvedListRef(phase, Cur)))
       => Len(import_stats'.errors) > Len(import_stats.errors)]_vars

\* C10: in an Apply import, a record all of whose referenced natural keys are
\* introduced by records of earlier types of the document is processed
\* without an error.
C10_ForwardResolution ==
    [][(AtRecord /\ ~dry_run /\ RefsIntroduced(phase, Cur))
       => import_stats'.errors = import_stats.errors]_vars

\* C11: an Apply import leaves every row that was in the store when it began
\* as it was: every field, and for a team its member and project lists.
C11_ExistingNotOverwritten ==
    (~dry_run /\ phase \in LoopPhases \cup {"done"})
    => \A t \in Tables : \A r \in store0[t] : r \in store[t]

\* the error kinds that report an unresolved reference
MissingKinds == {"org_missing", "user_missing", "project_org_missing",
                 "key_project_missing", "counter_project_missing",
                 "team_org_missing", "environment_org_missing",
                 "envproject_project_missing", "environment_missing",
                 "alert_project_missing", "token_user_missing"}

\* natural keys of the rows the store held when the import began
StoreEmails == {u.email : u \in store0["User"]}
StoreOrgSlugs == {o.slug : o \in store0["Organization"]}
StoreProjects == {ProjectRef(store0, q.id) : q \in store0["Project"]}
StoreEnvironments == {NaturalKey(store0, "Environment", e) : e \in store0["Environment"]}

\* every natural key the record refers to has a record of its own earlier in
\* the document and a row in the store the import began with
RefsExisting(p, rec) ==
    CASE p = "organization_users" ->
           /\ Get(rec, "user_email") \in DocEmails \cap StoreEmails
           /\ OrgRefOf(rec) \in DocOrgSlugs \cap StoreOrgSlugs
      [] p \in {"projects", "teams", "environments"} ->
           /\ ~Malformed(p, rec)
           /\ OrgRefOf(rec) \in DocOrgSlugs \cap StoreOrgSlugs
      [] p \in {"project_keys", "project_counters", "project_alerts"} ->
           \E q \in DocProjects \cap StoreProjects : q[2] = ProjectRefOf(rec)
      [] p = "environment_projects" ->
           \E q \in DocProjects \cap StoreProjects :
               /\ q[2] = ProjectRefOf(rec)
               /\ <<q[1], Get(rec, "environment_name")>>
                      \in DocEnvironments \cap StoreEnvironments
      [] p = "api_tokens" -> Get(rec, "user_email") \in DocEmails \cap StoreEmails
      [] OTHER -> FALSE

\* C12: a record whose references all name entities that have a record
\* earlier in the document and already exist in the target store is never
\* reported as having an unresolved reference.
C12_ExistingStillResolve ==
    [][(AtRecord /\ RefsExisting(phase, Cur))
       => \/ import_stats'.errors = import_stats.errors
          \/ import_stats'.errors[Len(import_stats'.errors)][1] \notin MissingKinds]_vars

\* the table a ForeignKey field points to
FKTarget(f) ==
    CASE f = "user" -> "User"
      [] f = "organization" -> "Organization"
      [] f = "project" -> "Project"
      [] f = "environment" -> "Environment"
      [] f = "alert" -> "ProjectAlert"

\* C13: in a document produced by export_all no foreign-key field of a record
\* holds the store-assigned primary key of the row it refers to.
C13_PortableReferences ==
    xpc \in {"done", "written", "write_failed"}
    => \A sec \in Sections : \A rec \in Range(GetList(exp.data[sec])) :
          \A f \in FKFields \cap DOMAIN rec : rec[f] \notin Ids(source[FKTarget(f)])

\* C14: once export_all has failed the export command ends with exit code 1
\* and no document: nothing is ever written, not even the sections gathered
\* before the failure.
C14_FailClosedExport ==
    /\ [](xpc = "failed" => (file = NoFile /\ ExportExit = 1))
    /\ [][xpc = "failed" => (xpc' = "failed" /\ file' = file)]_vars

\* an export has failed after the users of a non-empty store were gathered
C14_Witness ==
    /\ xpc = "failed"
    /\ exp.data["users"].st = "list"
    /\ Len(exp.data["users"].recs) > 0
    /\ file = NoFile

\* C15: in an Apply import a store call that raises while a record is
\* processed ends the import: it fails and the transaction is rolled back.
C15_InternalErrorsFatal ==
    (~dry_run /\ FailuresIn(import_stats.errors) > 0)
    => (phase = "failed" /\ result = "failed" /\ store = store0
        /\ txn = "rolled_back")

\* an import command has ended
RunEnded == runs > 0 /\ (phase \in {"done", "failed"} \/ result = "rejected")

\* the projects loop is at a record whose organization has no record in the
\* document
OrphanProject ==
    /\ AtRecord
    /\ phase = "projects"
    /\ ~Malformed(phase, Cur)
    /\ GetD(Cur, "organization_slug", "") \notin DocOrgSlugs

\* C16: the import command exits non-zero exactly when the input was rejected
\* or import_all failed.  A project whose organization_slug appears nowhere
\* in the document is reported and skipped, the loop goes on, and a run with
\* only such errors exits 0 with the users of the document imported.
C16_ImportExitCode ==
    /\ [](RunEnded => (ImportExit # 0 <=> (result = "rejected" \/ phase = "failed")))
    /\ [](result = "rejected" => store = store0)
    /\ [][OrphanProject
          => /\ import_stats'.errors =
                  Append(import_stats.errors,
                         <<"project_org_missing", GetD(Cur, "organization_slug", "")>>)
             /\ phase' = phase
             /\ idx' = idx + 1]_vars
    /\ []((phase = "done" /\ ~dry_run /\ FailuresIn(import_stats.errors) = 0)
          => (ImportExit = 0 /\ DocEmails \subseteq {u.email : u \in store["User"]}))

\* an Apply import that skipped a project of an organization the document
\* does not have has ended with exit code 0 and with users imported
C16_Witness ==
    /\ phase = "done"
    /\ ~dry_run
    /\ txn = "committed"
    /\ \E e \in Range(import_stats.errors) :
           e[1] = "project_org_missing" /\ e[2] \notin DocOrgSlugs
    /\ store["User"] # store0["User"]
    /\ store["Project"] # store0["Project"]
    /\ ImportExit = 0

\* the order of the entity types
ImportOrder == <<"users", "organizations", "organization_users", "projects",
                 "project_keys", "project_counters", "teams", "environments",
                 "environment_projects", "project_alerts", "alert_recipients",
                 "api_tokens">>

Rank(p) == CHOOSE i \in DOMAIN ImportOrder : ImportOrder[i] = p

\* the types whose handles the loop of a type looks up
References(p) ==
    CASE p = "organization_users" -> {"users", "organizations"}
      [] p = "projects" -> {"organizations"}
      [] p \in {"project_keys", "project_counters"} -> {"projects"}
      [] p = "teams" -> {"organizations", "users", "organization_users", "projects"}
      [] p = "environments" -> {"organizations"}
      [] p = "environment_projects" -> {"projects", "environments"}
      [] p = "project_alerts" -> {"projects"}
      [] p = "api_tokens" -> {"users"}
      [] OTHER -> {}

\* C17: within an import run the loops follow one another in the order users,
\* organizations, memberships, projects, project keys, project counters,
\* teams, environments, environment-project links, alerts, alert recipients,
\* API tokens; a loop is left for a later one only after its last record; the
\* index of a type is written only by the loop of that type; and every type
\* a loop looks up comes earlier in the order.
C17_FixedImportOrder ==
    /\ [][(phase \in LoopPhases /\ phase' \in LoopPhases /\ phase' # phase
           /\ runs' = runs)
          => Rank(phase) < Rank(phase')]_vars
    /\ [][(phase \in LoopPhases /\ phase' \notin {phase, "failed"})
          => idx > Len(Items)]_vars
    /\ [][runs' = runs
          => /\ email_to_user' # email_to_user => phase = "users"
             /\ slug_to_org' # slug_to_org => phase = "organizations"
             /\ slug_to_project' # slug_to_project => phase = "projects"]_vars
    /\ \A p \in LoopPhases : \A q \in References(p) : Rank(q) < Rank(p)

\* an Apply import has gone through the loops of all twelve types, in each
\* of which the document of a full store has a record, up to the tokens
C17_Witness ==
    /\ phase = "api_tokens"
    /\ ~dry_run
    /\ idx > 1
    /\ \A sec \in Range(ImportOrder) : Len(GetList(export_data.data[sec])) > 0
    /\ Cardinality(store["Team"]) > Cardinality(store0["Team"])

\* the count the report gives for a type (-1: the report has none)
Reported(k) == IF k \in DOMAIN import_stats THEN import_stats[k] ELSE -1

\* an Apply import of the unedited snapshot of the store {a@x.com, acme,
\* membership of a@x.com in acme, (acme, web)} has ended without store failure
ScenarioImported ==
    /\ source = SrcSmall
    /\ edits = 0
    /\ phase = "done"
    /\ ~dry_run
    /\ Failures = 0

\* C18: imported into an empty store, the snapshot {a@x.com; acme; membership
\* of a@x.com in acme; (acme, web)} creates one user, one organization, one
\* membership and one project, and the report counts 1 for each of the four
\* types; imported again, the report counts 0 created for each.
C18_Scenario ==
    /\ (ScenarioImported /\ store0 = EmptyStore)
       => /\ \A t \in {"User", "Organization", "OrganizationUser", "Project"} :
                Cardinality(store[t]) = 1
          /\ \A k \in {"users", "organizations", "organization_users", "projects"} :
                Reported(k) = 1
    /\ (ScenarioImported /\ runs = 2 /\ ~prev.dry_run /\ prev.result = "ok"
          /\ prev.start = EmptyStore)
       => /\ store = store0
          /\ \A k \in {"users", "organizations", "organization_users", "projects"} :
                Reported(k) = 0

\* the table a count of the report is about
TableOf(k) ==
    CASE k = "users" -> "User"
      [] k = "organizations" -> "Organization"
      [] k = "projects" -> "Project"
      [] k = "teams" -> "Team"
      [] k = "alerts" -> "ProjectAlert"
      [] k = "environments" -> "Environment"
      [] k = "api_tokens" -> "APIToken"

CountedTypes == DOMAIN NewStats \ {"errors"}

\* rows of a table the run has created
CreatedRows(t) == Cardinality(store[t]) - Cardinality(store0[t])

\* C19: when an import has ended, the count the report gives for a type is
\* the number of entities of that type the run created: a record that
\* already existed is not in it, and in a DryRun run it is 0.
C19_ReportAccounting ==
    (phase = "done" /\ Failures = 0)
    => \A k \in CountedTypes :
          import_stats[k] = IF dry_run THEN 0 ELSE CreatedRows(TableOf(k))

\* C20: a DryRun import never has a transaction: none is opened, so none is
\* committed or rolled back either.
C20_DryRunOpensNoTransaction == dry_run => txn = "none"

\* memberships the document has a record of, by natural key
DocMemberships ==
    {<<Get(r, "user_email"), OrgRefOf(r)>> : r \in DocRecs("organization_users")}

\* members a team has now and had not when the import began
AddedMembers(t) ==
    t.members \ UNION {t0.members : t0 \in {x \in store0["Team"] : x.id = t.id}}

\* C21: what an Apply import attaches a new row to was registered in that
\* run: an environment-project link made by the run points to an environment
\* the document has a record of, and a member added to a team is a membership
\* the document has a record of.
C21_ResolverExclusivity ==
    (~dry_run /\ phase # "idle")
    => /\ \A ep \in store["EnvironmentProject"] \ store0["EnvironmentProject"] :
             NaturalKey(store, "Environment", Row(store["Environment"], ep.environment))
                \in DocEnvironments
       /\ \A t \in store["Team"] : \A m \in AddedMembers(t) :
             NaturalKey(store, "OrganizationUser", Row(store["OrganizationUser"], m))
                \in DocMemberships

\* C22: the exported record of every user holds the stored password hash as
\* password_hash; a user created by an Apply import has the password_hash of
\* its record as stored password; a user the store already had keeps its own.
C22_PasswordHashVerbatim ==
    /\ xpc \in {"done", "written", "write_failed"}
       => \A u \in source["User"] : \E rec \in Range(GetList(exp.data["users"])) :
             rec.email = u.email /\ rec.password_hash = u.password
    /\ (~dry_run /\ phase # "idle")
       => /\ \A u \in store["User"] \ store0["User"] : \E rec \in DocRecs("users") :
                Get(rec, "email") = u.email /\ Get(rec, "password_hash") = u.password
          /\ store0["User"] \subseteq store["User"]

\* an Apply import of the snapshot of a store has created b@x.com with the
\* hash it has in the source, beside a user the target had with its own hash
C22_Witness ==
    /\ phase = "done"
    /\ ~dry_run
    /\ edits = 0
    /\ \E u \in store["User"] \ store0["User"] : \E v \in source["User"] :
           u.email = v.email /\ u.password = v.password
    /\ \E u \in store0["User"] \cap store["User"] : \E v \in source["User"] :
           u.email = v.email /\ u.password # v.password

\* C23: for every field of an exported record whose value took the str()
\* branch of serialize_model, the document records a warning naming the field.
C23_FallbackWarning ==
    xpc \in {"done", "written", "write_failed"}
    => \A sec \in Sections : \A rec \in Range(GetList(exp.data[sec])) :
          \A f \in FallbackFields \cap DOMAIN rec : <<sec, f>> \in Warnings(exp)

\* the entity types in the order export_all writes them
ExportOrder == <<"users", "organizations", "organization_users", "projects",
                 "project_keys", "project_counters", "teams", "project_alerts",
                 "alert_recipients", "environments", "environment_projects",
                 "api_tokens">>

\* the sections of `order` in front of section s
Before(order, s) ==
    {order[j] : j \in {k \in DOMAIN order : \E i \in DOMAIN order :
                                               order[i] = s /\ k < i}}

\* a step of the export writes section s
Written(s) == exp.data[s].st = "absent" /\ exp'.data[s].st = "list"

\* every section is written after the sections in front of it in `order`
WrittenInOrder(order) ==
    \A s \in Range(order) :
        Written(s) => \A q \in Before(order, s) : exp'.data[q].st = "list"

C25_ExportReadOnly == [][source' = source]_vars

\* an export that failed after it had read the projects of a store that has
\* some, and an export of such a store that succeeded
C25_Witness ==
    /\ source["Project"] # {}
    /\ xpc \in {"failed", "done"}
    /\ exp.data["projects"].st = "list"

\* projects a team has now and had not when the import began
AddedProjects(t) ==
    t.projects \ UNION {t0.projects : t0 \in {x \in store0["Team"] : x.id = t.id}}

\* C27: after an Apply import of the unedited export of a source store, every
\* alert, environment-project link and team project the run has attached is
\* attached to the project with the organization slug and project slug that
\* its counterpart in the source is attached to.
C27_ProjectIdentity ==
    (~dry_run /\ phase # "idle" /\ file = exp)
    => /\ \A a \in store["ProjectAlert"] \ store0["ProjectAlert"] :
             \E a0 \in source["ProjectAlert"] :
                 /\ a0.name = a.name
                 /\ ProjectRef(source, a0.project) = ProjectRef(store, a.project)
       /\ \A ep \in store["EnvironmentProject"] \ store0["EnvironmentProject"] :
             \E ep0 \in source["EnvironmentProject"] :
                 /\ NaturalKey(source, "Environment",
                               Row(source["Environment"], ep0.environment))
                    = NaturalKey(store, "Environment",
                                 Row(store["Environment"], ep.environment))
                 /\ ProjectRef(source, ep0.project) = ProjectRef(store, ep.project)
       /\ \A t \in store["Team"] : \A q \in AddedProjects(t) :
             \E t0 \in source["Team"] :
                 /\ NaturalKey(source, "Team", t0) = NaturalKey(store, "Team", t)
                 /\ \E q0 \in t0.projects :
                       ProjectRef(source, q0) = ProjectRef(store, q)

\* C29: after an Apply import, every member the run has added to a team is a
\* membership of the team's organization and every project the run has added
\* to a team is a project of the team's organization.
C29_TeamInsideOrganization ==
    (~dry_run /\ phase # "idle")
    => \A t \in store["Team"] :
          /\ \A m \in AddedMembers(t) :
                Row(store["OrganizationUser"], m).organization = t.organization
          /\ \A q \in AddedProjects(t) :
                Row(store["Project"], q).organization = t.organization

\* C28: when an Apply import of a document with an 'organizations' list has
\* run through, every organization record of the document is registered in
\* the resolver or has an entry in the error report, with or without an
\* 'organization_users' key in the document.
C28_PresentTypesProcessed ==
    (~dry_run /\ phase = "done" /\ file.data["organizations"].st = "list")
    => \A rec \in DocRecs("organizations") :
          \/ "slug" \in DOMAIN rec /\ rec.slug \in DOMAIN slug_to_org
          \/ \E e \in Range(import_stats.errors) :
                e[1] = "org_failed" \/ e = <<"record_failed", "organizations">>

\* both restarts have been asked of supervisorctl, web first
BothRestarted == commands = <<"web", "celery">>

Exited == exit_code # -1

\* C31: the success flag of the report is true exactly when no exception
\* reached the except branch, every check made after the restarts is HEALTHY
\* and both restarts succeeded, whatever the checks before the restarts
\* returned; a run that entered the except branch reports success = false;
\* the exit status is 0 exactly when the flag is true.
C31_RestartOutcome ==
    /\ (report # NoExecutionReport /\ handler = "none")
       => (report.success <=> /\ Len(post_checks) = 4
                              /\ Healthy(post_checks)
                              /\ Len(restart_actions) = 2
                              /\ Succeeded(restart_actions))
    /\ (report # NoExecutionReport /\ handler \notin {"none", "report"})
       => ~report.success
    /\ Exited => (exit_code = 0 <=> report.success)

\* a run whose checks before the restarts were not all healthy has exited 0
C31_Witness ==
    /\ Exited
    /\ exit_code = 0
    /\ ~Healthy(pre_checks)

\* C32: every run of execute, whether it ends in the try block or in the
\* except branch, has built an ExecutionReport and has called
\* send_feishu_notification exactly once when it exits, and the exit status
\* is that of the report whatever became of the notification.
C32_NotifiedOnce ==
    Exited => /\ report # NoExecutionReport
              /\ attempts = 1
              /\ exit_code = ExitCode(report)

\* C33: a run of partition-maintainer that reached its end exits 0 exactly
\* when subprocess.run returned with status 0; a run whose command timed out
\* or raised is a failure with partition count 0; when the process exits
\* after the command, send_feishu_notification has been called once, and the
\* exit status does not depend on what became of the notification.
C33_MaintenanceOutcome ==
    /\ pm.pc = "exited"
       => /\ pm.exit_code = 0 <=> (pm.command.raised = "none" /\ pm.command.returncode = 0)
          /\ pm.attempts = 1
    /\ (pm.pc \in {"notify", "exit", "exited"} /\ pm.command.raised # "none")
       => (~pm.result.success /\ pm.result.partition_count = 0)
    /\ pm.pc \in {"load_env", "run", "crashed"} => pm.attempts = 0
    /\ pm.pc = "crashed" => pm.exit_code = 1

\* a successful run has exited 0 although its notification was not sent
C33_Witness ==
    /\ pm.pc = "exited"
    /\ pm.exit_code = 0
    /\ pm.webhook_url = "set"
    /\ ~pm.notification_sent
    /\ pm.result.partition_count = 3

-----------------------------------------------------------------------------
(* The user manager                                                        *)

\* the update asks for an email that another user has
EmailTaken ==
    /\ last.command = "update"
    /\ last.arg \notin {"", last.email}
    /\ ByEmail(last.email) # {}
    /\ ByEmail(last.arg) # {}

MembersIn(rows, email, name) ==
    {m \in rows.OrganizationUser :
        /\ \E u \in rows.User : u.email = email /\ u.id = m.user
        /\ \E o \in rows.Organization : o.name = name /\ o.id = m.organization}

\* C35: for an existing user and an existing organization,
\* add_user_to_organization returns success every time and leaves exactly
\* one membership of the user in the organization; when the user or the
\* organization does not exist it returns failure and creates nothing.
C35_AddIdempotent ==
    [][last'.command = "add-to-org"
        => IF ByEmail(last'.email) # {} /\ ByName(last'.arg) # {}
           THEN /\ last'.success
                /\ Cardinality(MembersIn(db', last'.email, last'.arg)) = 1
           ELSE ~last'.success /\ db' = db]_vars

-----------------------------------------------------------------------------
(* The document in the hands of the importer                               *)

\* C36: import_all leaves the document it is given unchanged: from the
\* moment main hands the document over, no step of the importer removes a
\* key from a record, so the document is the same for a later run over it.
C36_InputUnchanged == [][runs' = runs => export_data' = export_data]_vars

-----------------------------------------------------------------------------
(* The alarm of the health checks                                          *)

\* C37: on leaving timeout_context, however the block ended, no alarm is
\* pending and the SIGALRM handler is the one installed before entry; a
\* check is only ever interrupted by the alarm of its own context.
C37_SignalStateRestored ==
    /\ tc.pc = "left" => (tc.alarm = 0 /\ tc.handler = tc.old_handler)
    /\ tc.interrupted_by \in {0, tc.n}

=============================================================================
